---- MODULE Spec2Model ----
(***************************************************************************)
(* IntelStudy backend: the retry helpers (utils/retry.js), the circuit     *)
(* breaker (utils/circuitBreaker.js) and the document pipeline of          *)
(* services/pdf.service.js (summary and MCQ generation with their          *)
(* deterministic fallbacks).                                               *)
(*                                                                         *)
(* The specifications share the module:                                    *)
(*   SpecRetry    one run of retryWithBackoff / retryOnCondition           *)
(*   SpecBreaker  concurrent execute calls on one shared CircuitBreaker    *)
(*   SpecDoc      one processDocument call on a document                   *)
(*   SpecBoundary the same on documents of about 3000 words                *)
(*   SpecDocLive  the same with fairness, for termination                  *)
(*   SpecCall     successive callHuggingFace calls, request by request     *)
(*   SpecChunk    one call of chunkText                                    *)
(*   SpecText     calls of the summary composer and of the MCQ fallback    *)
(***************************************************************************)
EXTENDS Integers, Sequences, FiniteSets, TLC

VARIABLES
  \* ---- retry.js: one invocation of a retry helper
  rFn,          \* which helper runs: "retryWithBackoff" | "retryOnCondition"
  rMax,         \* its maxRetries argument
  rK,           \* the predicate answers true to its first rK calls
  rBase,        \* baseDelay argument (retryWithBackoff)
  attempt,      \* the loop variable `attempt`
  rpc,          \* "try" | "catch" | "delay" | "thrown" | "returned"
  invocations,  \* number of times fn() has been called
  predCalls,    \* number of times shouldRetry(error) has been called
  lastErr,      \* the error caught last (errors are numbered by invocation)
  thrownErr,    \* the error the helper threw (0: none)
  delays,       \* the setTimeout delays waited, in order
  \* ---- circuitBreaker.js: one shared instance, concurrent callers
  state,        \* this.state
  failureCount, \* this.failureCount
  nextAttempt,  \* this.nextAttempt
  now,          \* Date.now()
  call,         \* per caller: position and bookkeeping of its execute call
  consecFails,  \* history: wrapped operations failed since the last success
  \* ---- pdf.service.js: one processDocument call
  doc,          \* the document submitted (an element of DocIds)
  dpc,          \* "idle" | "summarize" | "sumCall" | "summarized" | "floor"
                \*   | "mcqCall" | "done" | "threw"
  memo,         \* Analysis(text), while the request runs
  target,       \* what the summarizeText call in progress summarizes
  model,        \* position in `models` of the model being called (from 1)
  sectionSummaries, \* processDocument's sectionSummaries
  result,       \* what the last summarizeText call returned
  finalSummary, \* processDocument's finalSummary; at "done", result.summary
  mcqs,         \* at "done", result.mcqs
  allFailed,    \* history: every callHuggingFace call so far has thrown
  \* ---- pdf.service.js: one callHuggingFace call, request by request
  hf,           \* position, loop variable and upstream replies of the call
  \* ---- pdf.service.js: one call of a pure function
  pf            \* the function, its arguments and, once returned, its value

retryVars   == <<rFn, rMax, rK, rBase, attempt, rpc, invocations, predCalls,
                 lastErr, thrownErr, delays>>
breakerVars == <<state, failureCount, nextAttempt, now, call, consecFails>>
docVars     == <<doc, dpc, memo, target, model, sectionSummaries, result,
                 finalSummary, mcqs, allFailed>>
vars        == <<retryVars, breakerVars, docVars, hf, pf>>
exceptRetry   == <<breakerVars, docVars, hf, pf>>
exceptBreaker == <<retryVars, docVars, hf, pf>>

Min(a, b) == IF a <= b THEN a ELSE b

RECURSIVE Pow2(_)
Pow2(n) == IF n = 0 THEN 1 ELSE 2 * Pow2(n - 1)

(***************************************************************************)
(* Strings.  A JavaScript string is modelled by its run-length encoding:   *)
(* a sequence of runs [c |-> character, n |-> repetitions >= 1] in which   *)
(* adjacent runs carry different characters, so two strings are equal      *)
(* exactly when their encodings are.  The operators below compute, on the  *)
(* encoding, what the String and RegExp methods used by pdf.service.js     *)
(* compute on the string, for the characters of Alphabet.  They avoid      *)
(* recursion over the length of a string.                                  *)
(***************************************************************************)
LowerLetters ==
  {"a","b","c","d","e","f","g","h","i","j","k","l","m","n","o","p","q","r",
   "s","t","u","v","w","x","y","z"}
UpperSeq ==
  <<"A","B","C","D","E","F","G","H","I","J","K","L","M","N","O","P","Q","R",
    "S","T","U","V","W","X","Y","Z">>
LowerSeq ==
  <<"a","b","c","d","e","f","g","h","i","j","k","l","m","n","o","p","q","r",
    "s","t","u","v","w","x","y","z">>
UpperLetters == {UpperSeq[i] : i \in 1..26}

\* \s, [.!?] and \w restricted to the alphabet ("NL" is the newline; "bul1",
\* "bul2", "bul3" are the three characters of the bullet written at line 257).
Whitespace  == {" ", "NL"}
Terminators == {".", "!", "?"}
WordChars   == LowerLetters \cup UpperLetters \cup {"_"}
OtherChars  == {",", ":", "\"", "bul1", "bul2", "bul3"}
Alphabet    == Whitespace \cup Terminators \cup WordChars \cup OtherChars

ToLowerChar ==
  [c \in Alphabet |->
     IF c \in UpperLetters
     THEN LowerSeq[CHOOSE i \in 1..26 : UpperSeq[i] = c]
     ELSE c]

Idx(n) == [i \in 1..n |-> i]
Last(q) == q[Len(q)]

\* Sum of the repetitions of runs lo..hi of s (divide and conquer).
RECURSIVE SumN(_, _, _)
SumN(s, lo, hi) ==
  IF lo > hi THEN 0
  ELSE IF lo = hi THEN s[lo].n
  ELSE LET mid == (lo + hi) \div 2
       IN SumN(s, lo, mid) + SumN(s, mid + 1, hi)

\* String.prototype.length
StrLen(s) == SumN(s, 1, Len(s))

\* Re-establishes the encoding after characters were removed or replaced:
\* drops runs of zero repetitions and merges adjacent runs of one character.
Norm(s0) ==
  LET Merge(s, heads) ==
        [k \in 1..Len(heads) |->
           [c |-> s[heads[k]].c,
            n |-> SumN(s, heads[k],
                       IF k = Len(heads) THEN Len(s) ELSE heads[k + 1] - 1)]]
      Heads(s) ==
        Merge(s, SelectSeq(Idx(Len(s)),
                           LAMBDA i : i = 1 \/ s[i].c # s[i - 1].c))
  IN Heads(SelectSeq(s0, LAMBDA r : r.n > 0))

\* The string with the given characters, in order.
Str(chars) == Norm([i \in 1..Len(chars) |-> [c |-> chars[i], n |-> 1]])

\* c repeated n times.
Rep(c, n) == IF n = 0 THEN <<>> ELSE <<[c |-> c, n |-> n]>>

\* s + t
Cat(s, t) ==
  IF s = <<>> THEN t
  ELSE IF t = <<>> THEN s
  ELSE IF Last(s).c = t[1].c
       THEN SubSeq(s, 1, Len(s) - 1)
              \o <<[c |-> t[1].c, n |-> Last(s).n + t[1].n]>>
              \o SubSeq(t, 2, Len(t))
       ELSE s \o t

\* The concatenation of a sequence of strings (divide and conquer).
RECURSIVE CatRange(_, _, _)
CatRange(q, lo, hi) ==
  IF lo > hi THEN <<>>
  ELSE IF lo = hi THEN q[lo]
  ELSE LET mid == (lo + hi) \div 2
       IN Cat(CatRange(q, lo, mid), CatRange(q, mid + 1, hi))
CatAll(q) == CatRange(q, 1, Len(q))

\* Array.prototype.join(sep)
Join(q, sep) ==
  CatAll([i \in 1..(2 * Len(q) - 1) |->
            IF i % 2 = 1 THEN q[(i + 1) \div 2] ELSE sep])

\* String.prototype.trim
Trim(s) ==
  LET Between(keep) ==
        IF keep = <<>> THEN <<>> ELSE SubSeq(s, keep[1], Last(keep))
  IN Between(SelectSeq(Idx(Len(s)), LAMBDA i : s[i].c \notin Whitespace))

\* The least j in lo..hi with SumN(s, 1, j) >= k (binary search).
RECURSIVE CutIndex(_, _, _, _)
CutIndex(s, k, lo, hi) ==
  IF lo >= hi THEN lo
  ELSE LET mid == (lo + hi) \div 2
       IN IF SumN(s, 1, mid) >= k
          THEN CutIndex(s, k, lo, mid)
          ELSE CutIndex(s, k, mid + 1, hi)

\* String.prototype.substring(0, k)
Substring0(s, k) ==
  LET CutAt(j) ==
        SubSeq(s, 1, j - 1) \o <<[c |-> s[j].c, n |-> k - SumN(s, 1, j - 1)]>>
  IN IF k <= 0 THEN <<>>
     ELSE IF StrLen(s) <= k THEN s
     ELSE CutAt(CutIndex(s, k, 1, Min(Len(s), k)))

\* String.prototype.toLowerCase
ToLowerCase(s) == Norm([i \in 1..Len(s) |-> [c |-> ToLowerChar[s[i].c], n |-> s[i].n]])

\* String.prototype.includes(t), t not empty
Includes(s, t) ==
  LET k == Len(t) IN
  IF k = 0 THEN TRUE
  ELSE IF k = 1
  THEN \E i \in 1..Len(s) : s[i].c = t[1].c /\ s[i].n >= t[1].n
  ELSE \E i \in 1..(Len(s) - k + 1) :
         /\ s[i].c = t[1].c /\ s[i].n >= t[1].n
         /\ s[i + k - 1].c = t[k].c /\ s[i + k - 1].n >= t[k].n
         /\ \A j \in 2..(k - 1) : s[i + j - 1] = t[j]

\* /[.!?]$/ matches s
EndsWithTerminator(s) == s # <<>> /\ Last(s).c \in Terminators

\* The maximal stretches of s between the runs whose character is in seps,
\* in order; with `edges`, an empty string stands for a separator at the very
\* start and for one at the very end, as String.prototype.split returns them.
Pieces(s, seps, edges) ==
  LET isSep(i) == s[i].c \in seps
      Stretches(starts, ends) ==
        [k \in 1..Len(starts) |-> SubSeq(s, starts[k], ends[k])]
      edge(at) == IF edges /\ at THEN << <<>> >> ELSE <<>>
  IN edge(s = <<>> \/ isSep(1))
       \o Stretches(SelectSeq(Idx(Len(s)),
                      LAMBDA i : ~isSep(i) /\ (i = 1 \/ isSep(i - 1))),
                    SelectSeq(Idx(Len(s)),
                      LAMBDA i : ~isSep(i) /\ (i = Len(s) \/ isSep(i + 1))))
       \o edge(s # <<>> /\ isSep(Len(s)))

\* text.split(/\s+/)
SplitWhitespace(s) == Pieces(s, Whitespace, TRUE)

\* text.split(/\s+/).length
WordCount(s) == Len(SplitWhitespace(s))

\* text.split(/[.!?]+/)   (the empty strings it returns at the ends are left
\* out: every use filters on the trimmed length)
SplitTerminators(s) == Pieces(s, Terminators, FALSE)

\* s.split(/[.!?]/).length
TerminatorPieces(s) ==
  LET t == SelectSeq(s, LAMBDA r : r.c \in Terminators)
  IN StrLen(t) + 1

\* The pieces of s around its newline blocks: a block is a stretch of
\* whitespace taken from its first newline to its last one, holding at least
\* `least` newlines.  (/\n\s*\n/ matches exactly the blocks of two newlines or
\* more, /\n\s*\n\s*\n/ those of three or more: \s* is greedy.)
NewlineBlockPieces(s, least) ==
  LET isWs(i) == s[i].c \in Whitespace
      isNL(i) == s[i].c = "NL"
      firstNL(i) == isNL(i) /\ ~(i > 2 /\ isWs(i - 1) /\ isNL(i - 2))
      lastNL(i)  == isNL(i) /\ ~(i + 2 <= Len(s) /\ isWs(i + 1) /\ isNL(i + 2))
      nlOnly == [i \in 1..Len(s) |-> [n |-> IF isNL(i) THEN s[i].n ELSE 0]]
      Around(firsts, lasts, seps) ==
        [j \in 1..(Len(seps) + 1) |->
           SubSeq(s,
                  IF j = 1 THEN 1 ELSE lasts[seps[j - 1]] + 1,
                  IF j = Len(seps) + 1 THEN Len(s) ELSE firsts[seps[j]] - 1)]
      Blocks(firsts, lasts) ==
        Around(firsts, lasts,
               SelectSeq(Idx(Len(firsts)),
                 LAMBDA k : SumN(nlOnly, firsts[k], lasts[k]) >= least))
  IN Blocks(SelectSeq(Idx(Len(s)), firstNL), SelectSeq(Idx(Len(s)), lastNL))

\* text.split(/\n\s*\n/)
SplitBlankLines(s) == NewlineBlockPieces(s, 2)

\* s.replace(/\n\s*\n\s*\n/g, '\n\n')
CollapseBlankLines(s) == Join(NewlineBlockPieces(s, 3), Str(<<"NL", "NL">>))

\* s.replace(/\s+/g, ' ')
CollapseWhitespace(s) ==
  Norm([i \in 1..Len(s) |->
          IF s[i].c \in Whitespace
          THEN [c |-> " ",
                n |-> IF i = 1 \/ s[i - 1].c \notin Whitespace THEN 1 ELSE 0]
          ELSE s[i]])

\* s.replace(/\.\s*\./g, '.'): scanning from the left, a full stop, the
\* whitespace after it and the next full stop become one full stop; the
\* scan resumes after the replaced text.  Full stops linked by nothing but
\* whitespace form a chain, paired off from its start.
CollapseFullStops(s) ==
  LET Paired(dots) ==
        LET linked(k) == \A i \in (dots[k] + 1)..(dots[k + 1] - 1) :
                           s[i].c \in Whitespace
            isHead(k) == k = 1 \/ ~linked(k - 1)
            head(k) == CHOOSE h \in 1..k :
                         isHead(h) /\ \A g \in (h + 1)..k : ~isHead(g)
            dotN == [k \in 1..Len(dots) |-> [n |-> s[dots[k]].n]]
            before(k) == SumN(dotN, head(k), k - 1)
            \* whitespace run i lies between the two full stops of a pair
            inPair(i) ==
              \E k \in 1..(Len(dots) - 1) :
                /\ dots[k] < i /\ i < dots[k + 1]
                /\ linked(k)
                /\ (before(k) + s[dots[k]].n) % 2 = 1
            halved(i, earlier) ==
              IF earlier % 2 = 0 THEN (s[i].n + 1) \div 2 ELSE s[i].n \div 2
        IN Norm([i \in 1..Len(s) |->
                   IF s[i].c = "."
                   THEN [c |-> ".",
                         n |-> halved(i, before(CHOOSE k \in 1..Len(dots) :
                                                  dots[k] = i))]
                   ELSE IF s[i].c \in Whitespace /\ inPair(i)
                   THEN [c |-> s[i].c, n |-> 0]
                   ELSE s[i]])
  IN Paired(SelectSeq(Idx(Len(s)), LAMBDA i : s[i].c = "."))

\* word.replace(/[^\w]/g, '')
StripNonWord(s) == Norm(SelectSeq(s, LAMBDA r : r.c \in WordChars))

\* Object.entries(wordFreq).sort((a, b) => b[1] - a[1]).slice(0, top).map(word):
\* the cleaned words longer than minLen and outside `stop`, by falling
\* number of occurrences, ties in order of first occurrence (entries come in
\* insertion order and Array.prototype.sort is stable).
RankedWords(text, minLen, stop, top) ==
  LET Clean(words) ==
        SelectSeq([i \in 1..Len(words) |-> StripNonWord(words[i])],
                  LAMBDA w : StrLen(w) > minLen /\ w \notin stop)
      \* cand: the counted words in order; keys: where each first occurs
      Sorted(cand, keys) ==
        LET count(i) == Cardinality({j \in 1..Len(cand) : cand[j] = cand[i]})
            ahead(j, cj, i, ci) == cj > ci \/ (cj = ci /\ j < i)
            rank(i) ==
              Cardinality({k \in 1..Len(keys) :
                             ahead(keys[k], count(keys[k]), i, count(i))})
        IN [r \in 1..Min(top, Len(keys)) |->
              cand[keys[CHOOSE k \in 1..Len(keys) : rank(keys[k]) = r - 1]]]
      Keyed(cand) ==
        Sorted(cand, SelectSeq(Idx(Len(cand)),
                       LAMBDA i : \A j \in 1..(i - 1) : cand[j] # cand[i]))
  IN Keyed(Clean(SplitWhitespace(ToLowerCase(text))))

(***************************************************************************)
(* The string literals of pdf.service.js                                    *)
(***************************************************************************)
\* ' '
LitSpace ==
  Str(<<" ">>)

\* '\n'
LitNewline ==
  Str(<<"NL">>)

\* '\n\n'
LitBlankLine ==
  Str(<<"NL","NL">>)

\* '.'
LitFullStop ==
  Str(<<".">>)

\* '...'
LitEllipsis ==
  Str(<<".",".",".">>)

\* createStructuredSummary, line 250
LitMainPoints ==
  Str(<<"M","a","i","n"," ","P","o","i","n","t","s",":","NL">>)

\* createStructuredSummary, line 257
LitBullet ==
  Str(<<"bul1","bul2","bul3"," ">>)

\* createStructuredSummary, line 270
LitApproach ==
  Str(<<"A","p","p","r","o","a","c","h",":"," ">>)

\* createStructuredSummary, line 283
LitKeyFindings ==
  Str(<<"K","e","y"," ","F","i","n","d","i","n","g","s",":"," ">>)

\* createStructuredSummary, line 293
LitConclusion ==
  Str(<<"C","o","n","c","l","u","s","i","o","n",":"," ">>)

\* extractKeyInformation, line 184
Stopwords ==
  {Str(<<"t","h","e">>),
   Str(<<"t","h","i","s">>),
   Str(<<"t","h","a","t">>),
   Str(<<"w","i","t","h">>),
   Str(<<"f","r","o","m">>),
   Str(<<"w","h","i","c","h">>),
   Str(<<"t","h","e","i","r">>),
   Str(<<"t","h","e","r","e">>)}

\* createStructuredSummary, line 217
ProblemIndicators ==
  {Str(<<"p","r","o","b","l","e","m">>),
   Str(<<"i","s","s","u","e">>),
   Str(<<"c","h","a","l","l","e","n","g","e">>),
   Str(<<"a","i","m">>),
   Str(<<"g","o","a","l">>),
   Str(<<"p","u","r","p","o","s","e">>),
   Str(<<"o","b","j","e","c","t","i","v","e">>),
   Str(<<"p","r","o","p","o","s","e">>),
   Str(<<"p","r","e","s","e","n","t">>),
   Str(<<"i","n","t","r","o","d","u","c","e">>),
   Str(<<"s","t","u","d","y">>),
   Str(<<"r","e","s","e","a","r","c","h">>),
   Str(<<"i","n","v","e","s","t","i","g","a","t","e">>)}

\* createStructuredSummary, line 264
MethodIndicators ==
  {Str(<<"m","e","t","h","o","d">>),
   Str(<<"a","p","p","r","o","a","c","h">>),
   Str(<<"t","e","c","h","n","i","q","u","e">>),
   Str(<<"a","l","g","o","r","i","t","h","m">>),
   Str(<<"s","y","s","t","e","m">>),
   Str(<<"f","r","a","m","e","w","o","r","k">>),
   Str(<<"m","o","d","e","l">>),
   Str(<<"p","r","o","c","e","s","s">>),
   Str(<<"p","r","o","c","e","d","u","r","e">>)}

\* createStructuredSummary, line 277
ResultIndicators ==
  {Str(<<"r","e","s","u","l","t">>),
   Str(<<"f","i","n","d","i","n","g">>),
   Str(<<"s","h","o","w">>),
   Str(<<"d","e","m","o","n","s","t","r","a","t","e">>),
   Str(<<"a","c","h","i","e","v","e">>),
   Str(<<"o","b","t","a","i","n">>),
   Str(<<"o","b","s","e","r","v","e">>),
   Str(<<"c","o","n","c","l","u","d","e">>),
   Str(<<"i","n","d","i","c","a","t","e">>)}

\* generateIntelligentMCQs, questionTypes, lines 538-544: the text before the phrase
QuestionOpen ==
  <<Str(<<"W","h","a","t"," ","i","s"," ","m","e","n","t","i","o","n",
         "e","d"," ","a","b","o","u","t"," ","\"">>),
   Str(<<"A","c","c","o","r","d","i","n","g"," ","t","o"," ","t","h",
         "e"," ","t","e","x","t",","," ","w","h","i","c","h"," ","s",
         "t","a","t","e","m","e","n","t"," ","i","s"," ","t","r","u",
         "e"," ","r","e","g","a","r","d","i","n","g"," ","\"">>),
   Str(<<"H","o","w"," ","d","o","e","s"," ","t","h","e"," ","t","e",
         "x","t"," ","d","e","s","c","r","i","b","e"," ","\"">>),
   Str(<<"W","h","y"," ","i","s"," ","\"">>),
   Str(<<"I","d","e","n","t","i","f","y"," ","t","h","e"," ","k","e",
         "y"," ","a","s","p","e","c","t"," ","o","f"," ","\"">>)>>

\* questionTypes, lines 538-544: the text after the phrase
QuestionClose ==
  <<Str(<<"\"","?">>),
   Str(<<"\"","?">>),
   Str(<<"\"","?">>),
   Str(<<"\""," ","i","m","p","o","r","t","a","n","t"," ","a","c","c",
         "o","r","d","i","n","g"," ","t","o"," ","t","h","e"," ","d",
         "o","c","u","m","e","n","t","?">>),
   Str(<<"\""," ","m","e","n","t","i","o","n","e","d"," ","i","n"," ",
         "t","h","e"," ","t","e","x","t",".">>)>>

\* generateIntelligentMCQs, lines 562-564
Distractors ==
  <<Str(<<"I","t"," ","i","s"," ","n","o","t"," ","d","i","s","c","u",
         "s","s","e","d"," ","i","n"," ","t","h","e"," ","t","e","x",
         "t">>),
   Str(<<"T","h","e"," ","t","e","x","t"," ","p","r","o","v","i","d",
         "e","s"," ","c","o","n","f","l","i","c","t","i","n","g"," ",
         "i","n","f","o","r","m","a","t","i","o","n">>),
   Str(<<"F","u","r","t","h","e","r"," ","r","e","s","e","a","r","c",
         "h"," ","i","s"," ","n","e","e","d","e","d"," ","o","n"," ",
         "t","h","i","s"," ","t","o","p","i","c">>)>>

\* generateIntelligentMCQs, line 577
LitPadOpen ==
  Str(<<"W","h","a","t"," ","i","s"," ","t","h","e"," ","m","a","i","n",
        " ","f","o","c","u","s"," ","r","e","g","a","r","d","i","n","g",
        " ","\"">>)

\* generateIntelligentMCQs, line 577
LitPadClose ==
  Str(<<"\""," ","i","n"," ","t","h","i","s"," ","d","o","c","u","m",
        "e","n","t","?">>)

\* generateIntelligentMCQs, line 577
LitTheSubject ==
  Str(<<"t","h","e"," ","s","u","b","j","e","c","t">>)

\* generateIntelligentMCQs, lines 578-583
PadOptions ==
  <<Str(<<"I","t"," ","i","s"," ","t","h","e"," ","p","r","i","m","a",
         "r","y"," ","t","o","p","i","c"," ","d","i","s","c","u","s",
         "s","e","d">>),
   Str(<<"I","t"," ","i","s"," ","m","e","n","t","i","o","n","e","d",
         " ","b","r","i","e","f","l","y">>),
   Str(<<"I","t"," ","i","s"," ","n","o","t"," ","r","e","l","e","v",
         "a","n","t"," ","t","o"," ","t","h","e"," ","d","o","c","u",
         "m","e","n","t">>),
   Str(<<"I","t"," ","r","e","q","u","i","r","e","s"," ","a","d","d",
         "i","t","i","o","n","a","l"," ","c","o","n","t","e","x","t">>)>>

\* generateMCQs, line 480
LitQuestionNotGenerated ==
  Str(<<"Q","u","e","s","t","i","o","n"," ","n","o","t"," ","g","e","n",
        "e","r","a","t","e","d">>)

\* generateMCQs, line 483
DefaultOptions ==
  <<Str(<<"O","p","t","i","o","n"," ","A">>),
   Str(<<"O","p","t","i","o","n"," ","B">>),
   Str(<<"O","p","t","i","o","n"," ","C">>),
   Str(<<"O","p","t","i","o","n"," ","D">>)>>

(***************************************************************************)
(* pdf.service.js: the deterministic fallbacks                             *)
(***************************************************************************)
MinSentenceLength  == 20     \* lines 173, 521: s.trim().length > 20
MinParagraphLength == 50     \* line 174: p.trim().length > 50
MinKeyTermLength   == 5      \* line 184: cleanWord.length > 5
MaxKeyTerms        == 15     \* line 191
MaxImportant       == 10     \* line 198
MaxParagraphs      == 5      \* line 204

\* array.slice(0, n)
Slice0(q, n) == SubSeq(q, 1, Min(n, Len(q)))

\* lines 173 and 521: text.split(/[.!?]+/).filter(s => s.trim().length > 20)
Sentences(text) ==
  SelectSeq(SplitTerminators(text),
            LAMBDA s : StrLen(Trim(s)) > MinSentenceLength)

\* indicators.some(indicator => s.toLowerCase().includes(indicator))
HasIndicator(s, indicators) ==
  LET low == ToLowerCase(s) IN \E w \in indicators : Includes(low, w)

extractKeyInformation(text) ==
  LET Extracted(sentences, keyTerms) ==
        [\* Math.floor(sentences.length * 0.2)
         introSection       |-> SubSeq(sentences, 1, Len(sentences) \div 5),
         importantSentences |->
           Slice0(SelectSeq(sentences,
                    LAMBDA s : LET low == ToLowerCase(s)
                               IN \E k \in 1..Len(keyTerms) :
                                    Includes(low, keyTerms[k])),
                  MaxImportant),
         keyTerms           |-> keyTerms,
         paragraphs         |->
           Slice0(SelectSeq(SplitBlankLines(text),
                    LAMBDA p : StrLen(Trim(p)) > MinParagraphLength),
                  MaxParagraphs)]
  IN Extracted(Sentences(text),
               RankedWords(text, MinKeyTermLength, Stopwords, MaxKeyTerms))

\* `if (!s.match(/[.!?]$/)) ... += '.'`
ClosingStop(s) == IF EndsWithTerminator(s) THEN <<>> ELSE LitFullStop

\* s.substring(0, k) + (s.length > k ? '...' : '')
Shorten(s, k) ==
  Cat(Substring0(s, k), IF StrLen(s) > k THEN LitEllipsis ELSE <<>>)

\* createStructuredSummary, lines 215-234: the introduction.
IntroductionPart(introSection) ==
  LET Opening(problemSentence) ==
        IF problemSentence # <<>>
        THEN CatAll(<<Trim(problemSentence),
                      IF StrLen(problemSentence) < 150 /\ Len(introSection) > 1
                      THEN Cat(LitSpace, Trim(introSection[2]))
                      ELSE <<>>,
                      LitBlankLine>>)
        ELSE Cat(Shorten(Join(Slice0(introSection, 2), LitSpace), 250),
                 LitBlankLine)
      FirstOf(hits) ==
        Opening(IF hits # <<>> THEN hits[1] ELSE introSection[1])
  IN IF Len(introSection) = 0 THEN <<>>
     ELSE FirstOf(SelectSeq(introSection,
                    LAMBDA s : HasIndicator(s, ProblemIndicators)))

\* createStructuredSummary, lines 237-261: the "Main Points" block.
MainPointsPart(importantSentences) ==
  LET within(n) == n > 40 /\ n < 250
      fits(i) == /\ within(StrLen(Trim(importantSentences[i])))
                 /\ \A j \in 1..(i - 1) :
                      importantSentences[j] # importantSentences[i]
      Line(clean) ==
        CatAll(<<LitBullet, clean, ClosingStop(clean), LitNewline>>)
      \* kept: the positions of the sentences pushed to organizedPoints
      Block(kept) ==
        IF Len(kept) = 0 THEN <<>>
        ELSE CatAll(<<LitMainPoints,
                      CatAll([k \in 1..Min(6, Len(kept)) |->
                                Line(Trim(importantSentences[kept[k]]))]),
                      LitNewline>>)
  IN Block(SelectSeq(Idx(Len(importantSentences)), fits))

\* createStructuredSummary, lines 264-287: "Approach: " and "Key Findings: ".
IndicatorPart(importantSentences, indicators, label) ==
  LET Part(found) ==
        IF Len(found) = 0 THEN <<>>
        ELSE CatAll(<<label, Trim(found[1]), ClosingStop(found[1]),
                      LitBlankLine>>)
  IN Part(SelectSeq(importantSentences,
                    LAMBDA s : HasIndicator(s, indicators)))

\* createStructuredSummary, lines 290-299: the conclusion.
ConclusionPart(paragraphs) ==
  LET Closing(conclusion, conclusionText) ==
        IF conclusion # <<>> /\ StrLen(conclusion) > 50
        THEN CatAll(<<LitConclusion, Shorten(conclusionText, 200),
                      ClosingStop(conclusionText)>>)
        ELSE <<>>
  IN IF Len(paragraphs) = 0 THEN <<>>
     ELSE Closing(Last(paragraphs), Trim(Last(paragraphs)))

createStructuredSummary(extracted) ==
  LET summary ==
        CatAll(<<IntroductionPart(extracted.introSection),
                 MainPointsPart(extracted.importantSentences),
                 IndicatorPart(extracted.importantSentences,
                               MethodIndicators, LitApproach),
                 IndicatorPart(extracted.importantSentences,
                               ResultIndicators, LitKeyFindings),
                 ConclusionPart(extracted.paragraphs)>>)
  IN Trim(CollapseFullStops(CollapseBlankLines(
            CollapseWhitespace(Trim(summary)))))

\* The extractive summary: createStructuredSummary(extractKeyInformation(text))
ExtractiveSummary(text) == createStructuredSummary(extractKeyInformation(text))

MinQuestionSentence == 30    \* line 548: sentence.length < 30 is skipped
MinImportantWord    == 4     \* line 527: cleanWord.length > 4
MaxImportantWords   == 10    \* line 534
McqCount            == 5     \* lines 546, 574, 588

\* generateIntelligentMCQs, lines 547-571: the MCQ of sentences[i] (i from 0).
SentenceMCQ(sentence, i) ==
  LET Made(options) ==
        [question |-> CatAll(<<QuestionOpen[(i % 5) + 1],
                               Shorten(Substring0(sentence,
                                         Min(60, StrLen(sentence))), 40),
                               QuestionClose[(i % 5) + 1]>>),
         options  |-> Slice0(options, 4),
         answer   |-> options[1]]
  IN Made(<<Shorten(sentence, 80)>> \o Distractors)

\* generateIntelligentMCQs, lines 575-585: the generic MCQ used as padding.
PaddingMCQ(importantWords) ==
  LET About(topics) ==
        [question |-> CatAll(<<LitPadOpen,
                               IF Len(topics) > 0 /\ topics[1] # <<>>
                               THEN topics[1] ELSE LitTheSubject,
                               LitPadClose>>),
         options  |-> PadOptions,
         answer   |-> PadOptions[1]]
  IN About(Slice0(importantWords, 4))

\* Number of padding MCQs pushed by `while (mcqs.length < 5)`.
PaddingNeededMut(have) == IF have < McqCount - 1 THEN McqCount - 1 - have ELSE 0
PaddingNeeded(have) == IF have < McqCount THEN McqCount - have ELSE 0

generateIntelligentMCQs(text) ==
  LET \* used: the positions, among the first five sentences, of those of
      \* 30 characters or more; pad: the padding MCQ
      Made(sentences, used, pad) ==
        Slice0([k \in 1..Len(used) |->
                  SentenceMCQ(Trim(sentences[used[k]]), used[k] - 1)]
                 \o [k \in 1..PaddingNeeded(Len(used)) |-> pad],
               McqCount)
      Looked(sentences) ==
        Made(sentences,
             SelectSeq(Idx(Min(McqCount, Len(sentences))),
               LAMBDA i : StrLen(Trim(sentences[i])) >= MinQuestionSentence),
             PaddingMCQ(RankedWords(text, MinImportantWord, {},
                                    MaxImportantWords)))
  IN Looked(Sentences(text))

(***************************************************************************)
(* retry.js                                                                *)
(***************************************************************************)
MaxRetriesArg == 4      \* maxRetries ranges over 0..MaxRetriesArg
MaxPredTrue   == 4      \* rK ranges over 0..MaxPredTrue
DefaultMaxRetries == 3
DefaultBaseDelay  == 1000

RetryIdle ==
  /\ rFn = "none" /\ rMax = 0 /\ rK = 0 /\ rBase = 0 /\ attempt = 0
  /\ rpc = "returned" /\ invocations = 0 /\ predCalls = 0
  /\ lastErr = 0 /\ thrownErr = 0 /\ delays = <<>>

RetryInit ==
  /\ rFn \in {"retryWithBackoff", "retryOnCondition"}
  /\ rMax \in 0..MaxRetriesArg
  /\ rK \in 0..MaxPredTrue
  /\ rBase = DefaultBaseDelay
  /\ attempt = 0
  /\ rpc = "try"
  /\ invocations = 0 /\ predCalls = 0
  /\ lastErr = 0 /\ thrownErr = 0 /\ delays = <<>>

\* `for (let attempt = 0; attempt <= maxRetries; attempt++)`: the loop test.
LoopRuns(a, max) == a <= max

\* `return await fn()`: fn is called once; it resolves (the helper returns its
\* value) or rejects with a fresh error, caught by the catch clause.
Invoke ==
  /\ rpc = "try"
  /\ LoopRuns(attempt, rMax)
  /\ invocations' = invocations + 1
  /\ \E ok \in BOOLEAN :
       IF ok
       THEN rpc' = "returned" /\ lastErr' = lastErr
       ELSE rpc' = "catch" /\ lastErr' = invocations + 1
  /\ UNCHANGED <<rFn, rMax, rK, rBase, attempt, predCalls, thrownErr, delays>>
  /\ UNCHANGED exceptRetry

\* retryWithBackoff, line 6: `if (attempt === maxRetries) throw error`.
BackoffGivesUpMut(a, max) == a + 1 >= max
BackoffGivesUp(a, max) == a = max

\* retryWithBackoff, line 10: `baseDelay * Math.pow(2, attempt)`.
BackoffDelay(base, a) == base * Pow2(a)

BackoffCatch ==
  /\ rFn = "retryWithBackoff" /\ rpc = "catch"
  /\ IF BackoffGivesUp(attempt, rMax)
     THEN rpc' = "thrown" /\ thrownErr' = lastErr
     ELSE rpc' = "delay" /\ thrownErr' = thrownErr
  /\ UNCHANGED <<rFn, rMax, rK, rBase, attempt, invocations, predCalls,
                 lastErr, delays>>
  /\ UNCHANGED exceptRetry

\* The awaited setTimeout, then the loop's attempt++.
BackoffWait ==
  /\ rFn = "retryWithBackoff" /\ rpc = "delay"
  /\ delays' = Append(delays, BackoffDelay(rBase, attempt))
  /\ attempt' = attempt + 1
  /\ rpc' = "try"
  /\ UNCHANGED <<rFn, rMax, rK, rBase, invocations, predCalls, lastErr,
                 thrownErr>>
  /\ UNCHANGED exceptRetry

\* The predicate handed to retryOnCondition: true for its first rK calls.
ShouldRetry(nthCall) == nthCall <= rK

\* retryOnCondition, line 21: `attempt === maxRetries || !shouldRetry(error)`;
\* || short-circuits, so the predicate is asked only when attempts remain.
ConditionGivesUpMut(a, max, retryable) == a = max /\ ~retryable
ConditionGivesUp(a, max, retryable) == a = max \/ ~retryable

ConditionCatch ==
  /\ rFn = "retryOnCondition" /\ rpc = "catch"
  /\ LET asked == attempt # rMax
         n     == IF asked THEN predCalls + 1 ELSE predCalls
     IN /\ predCalls' = n
        /\ IF ConditionGivesUp(attempt, rMax, asked /\ ShouldRetry(n))
           THEN rpc' = "thrown" /\ thrownErr' = lastErr /\ attempt' = attempt
           ELSE rpc' = "try" /\ thrownErr' = thrownErr /\ attempt' = attempt + 1
  /\ UNCHANGED <<rFn, rMax, rK, rBase, invocations, lastErr, delays>>
  /\ UNCHANGED exceptRetry

RetryNext == Invoke \/ BackoffCatch \/ BackoffWait \/ ConditionCatch

(***************************************************************************)
(* circuitBreaker.js: `hfCircuitBreaker`, one instance per process, shared *)
(* by every request.  JavaScript runs each synchronous stretch of code     *)
(* atomically; an execute call is suspended only at `await fn()`.          *)
(***************************************************************************)
FailureThreshold == 5
ResetTimeout     == 60000

NumCallers == 2         \* concurrent requests sharing the breaker
TickMs     == 30000     \* the clock advances in steps of TickMs
MaxTicks   == 5         \* and stops after MaxTicks steps

Callers == 1..NumCallers

IdleCall(res) ==
  [pc |-> "idle", result |-> res, probe |-> FALSE, duringProbe |-> FALSE,
   gated |-> FALSE]

\* constructor: state CLOSED, failureCount 0, nextAttempt = Date.now()
BreakerInit ==
  /\ state = "CLOSED"
  /\ failureCount = 0
  /\ now = 0
  /\ nextAttempt = 0
  /\ call = [p \in Callers |-> IdleCall("none")]
  /\ consecFails = 0

BreakerIdle == BreakerInit

\* A HALF_OPEN probe (the call that moved OPEN to HALF_OPEN) is in flight.
ProbeInFlight == \E q \in Callers : call[q].pc = "inFn" /\ call[q].probe

\* execute, lines 11-12: `this.state === 'OPEN'` and `Date.now() < this.nextAttempt`.
ExecuteRejectsMut(st, t, na) == st = "OPEN" /\ t + ResetTimeout < na
ExecuteRejects(st, t, na) == st = "OPEN" /\ t < na

\* execute, lines 11-19, up to the suspension at `await fn()`: reject while
\* OPEN before nextAttempt, else (from OPEN) become HALF_OPEN and call fn.
Execute(p) ==
  /\ call[p].pc = "idle"
  /\ LET gate == consecFails >= FailureThreshold /\ now < nextAttempt IN
     IF ExecuteRejects(state, now, nextAttempt)
     THEN /\ call' = [call EXCEPT ![p] =
                        [IdleCall("rejected") EXCEPT !.gated = gate]]
          /\ state' = state
     ELSE /\ call' = [call EXCEPT ![p] =
                        [pc |-> "inFn", result |-> "none",
                         probe |-> (state = "OPEN"),
                         duringProbe |-> ProbeInFlight,
                         gated |-> gate]]
          /\ state' = IF state = "OPEN" THEN "HALF_OPEN" ELSE state
  /\ UNCHANGED <<failureCount, nextAttempt, now, consecFails>>
  /\ UNCHANGED exceptBreaker

\* onSuccess, lines 28-31.
OnSuccessStateMut(st) == st
OnSuccessState(st) == "CLOSED"

\* fn resolved: execute resumes, runs onSuccess and returns the result.
Succeed(p) ==
  /\ call[p].pc = "inFn"
  /\ failureCount' = 0
  /\ state' = OnSuccessState(state)
  /\ consecFails' = 0
  /\ call' = [call EXCEPT ![p] = IdleCall("ok")]
  /\ UNCHANGED <<nextAttempt, now>>
  /\ UNCHANGED exceptBreaker

\* onFailure, line 35: `this.failureCount >= this.failureThreshold`.
OnFailureOpensMut(fc) == fc > FailureThreshold
OnFailureOpens(fc) == fc >= FailureThreshold

\* fn rejected: execute resumes in its catch clause, runs onFailure
\* (lines 33-39) and rethrows.
Fail(p) ==
  /\ call[p].pc = "inFn"
  /\ failureCount' = failureCount + 1
  /\ IF OnFailureOpens(failureCount + 1)
     THEN state' = "OPEN" /\ nextAttempt' = now + ResetTimeout
     ELSE state' = state /\ nextAttempt' = nextAttempt
  /\ consecFails' = consecFails + 1
  /\ call' = [call EXCEPT ![p] = IdleCall("error")]
  /\ UNCHANGED now
  /\ UNCHANGED exceptBreaker

\* Time passes between two synchronous stretches.
Tick ==
  /\ now < MaxTicks * TickMs
  /\ now' = now + TickMs
  /\ UNCHANGED <<state, failureCount, nextAttempt, call, consecFails>>
  /\ UNCHANGED exceptBreaker

BreakerNext ==
  \/ \E p \in Callers : Execute(p)
  \/ \E p \in Callers : Succeed(p)
  \/ \E p \in Callers : Fail(p)
  \/ Tick

(***************************************************************************)
(* pdf.service.js: processDocument on one document.  The documents are     *)
(* built from a few kinds of parts; the replies of the Hugging Face API    *)
(* are drawn from small sets.                                              *)
(***************************************************************************)
MaxParts    == 2      \* a short document has up to MaxParts parts
MaxArrayLen == 6      \* a model's JSON array has up to MaxArrayLen elements
MaxPauses   == 1      \* the clock advances up to MaxPauses times

DirectWords  == 500   \* line 319: wordCount < 500 is summarized by extraction
ChunkedWords == 3000  \* line 602: wordCount > 3000 is summarized in sections
ChunkSize    == 1000  \* line 607: chunkText(text, 1000)
HeadChars    == 3000  \* line 640: text.substring(0, 3000)
MinSection   == 50    \* lines 390, 622: length > 50
MaxCombined  == 500   \* line 633: combined.length > 500
MinSummary   == 100   \* line 649: finalSummary.trim().length < 100
FragmentPieces == 10  \* line 398: split(/[.!?]/).length > 10
FragmentChars  == 200 \* line 398: cleanedSummary.length < 200
SummaryModels == 6    \* lines 327-334: six summarization models
McqModels     == 5    \* lines 430-436: five MCQ models

Parts == {"blank", "tiny", "mid", "plain", "keyed", "stock", "essay"}

PartText(p) ==
  CASE p = "blank" -> Rep(" ", 2)   \* whitespace only
    [] p = "word" -> Str(<<"w","e">>)   \* one word
    [] p = "tiny" ->   \* too short to count as a sentence
         Str(<<"H","i",".">>)
    [] p = "mid" ->   \* a sentence (over 20 characters) under 30 characters
         Str(<<"w","e"," ","s","a","w"," ","h","i","m"," ","g","o"," ",
               "t","o"," ","t","h","e"," ","b","a","r",".">>)
    [] p = "plain" ->   \* a sentence without a word over 4 letters
         Str(<<"w","e"," ","s","e","e"," ","t","h","a","t"," ","t","h",
               "e"," ","c","a","t"," ","s","a","t"," ","o","n"," ","t",
               "h","e"," ","m","a","t"," ","b","y"," ","t","h","e"," ",
               "b","a","r",".">>)
    [] p = "keyed" ->   \* a sentence over 80 characters with repeated long words
         Str(<<"T","h","e"," ","m","e","t","h","o","d"," ","o","f"," ",
               "t","h","i","s"," ","s","t","u","d","y"," ","s","h","o",
               "w","s"," ","a"," ","l","e","n","g","t","h","y"," ","r",
               "e","s","u","l","t"," ","a","n","d"," ","t","h","e"," ",
               "m","e","t","h","o","d"," ","w","o","r","k","s"," ","f",
               "o","r"," ","e","v","e","r","y"," ","l","e","n","g","t",
               "h","y"," ","s","t","u","d","y"," ","w","e"," ","m","a",
               "d","e",".">>)
    [] p = "stock" ->   \* a sentence that reads like the first stock distractor
         Str(<<"I","t"," ","i","s"," ","n","o","t"," ","d","i","s","c",
               "u","s","s","e","d"," ","i","n"," ","t","h","e"," ","t",
               "e","x","t",".">>)
    [] p = "essay" ->   \* five sentences of 30 characters or more
         Str(<<"O","u","r"," ","s","t","u","d","y"," ","h","a","s"," ",
               "o","n","e"," ","a","i","m"," ","a","n","d"," ","o","n",
               "e"," ","g","o","a","l"," ","h","e","r","e","."," ","T",
               "h","e"," ","m","e","t","h","o","d"," ","w","e"," ","u",
               "s","e"," ","i","s"," ","a"," ","s","i","m","p","l","e",
               " ","m","o","d","e","l","."," ","T","h","e"," ","r","e",
               "s","u","l","t"," ","s","h","o","w","s"," ","a"," ","g",
               "a","i","n"," ","i","n"," ","a","l","l"," ","c","a","s",
               "e","s","."," ","W","e"," ","c","o","n","c","l","u","d",
               "e"," ","t","h","a","t"," ","t","h","e"," ","m","e","t",
               "h","o","d"," ","d","o","e","s"," ","w","o","r","k",".",
               " ","M","o","r","e"," ","r","e","s","e","a","r","c","h",
               " ","i","s"," ","n","e","e","d","e","d"," ","o","n"," ",
               "t","h","i","s"," ","t","o","p","i","c","!">>)

Separators == {"space", "blankLine"}
SepText(s) == IF s = "space" THEN LitSpace ELSE LitBlankLine

\* The documents: every sequence of up to MaxParts parts joined by either
\* separator (the empty sequence is the empty text), and two long documents
\* of copies of one sentence, one of DirectWords words or a little more and
\* one of a little more than ChunkedWords words.
\* `lead` is the number of spaces before the first part, `extra` the number
\* of single words after the last one.
DocIds ==
  LET w == WordCount(PartText("keyed"))
  IN [parts : UNION {[1..n -> Parts] : n \in 0..MaxParts},
      sep : Separators, copies : {1}, lead : {0}, extra : {0}]
     \cup [parts : {<<"keyed">>}, sep : {"space"},
           copies : {DirectWords \div w + 1, ChunkedWords \div w + 1},
           lead : {0}, extra : {0}]

\* Documents at the limit between direct and multi-stage summarization:
\* sentences and single words that make ChunkedWords words and one more,
\* and the longer one again behind HeadChars spaces; and a document at the
\* limit between extraction and model summarization: DirectWords paragraphs
\* of one word, from which nothing can be extracted, and the same with one
\* paragraph less; and a document of a
\* little more than ChunkedWords + ChunkSize words, which makes five chunks.
BoundaryDocIds ==
  LET w == WordCount(PartText("keyed"))
      AtLimit(n, r) ==
        [parts : {<<"keyed">>}, sep : {"space"}, copies : {n},
         lead : {0}, extra : {r, r + 1}]
        \cup [parts : {<<"keyed">>}, sep : {"space"}, copies : {n},
              lead : {HeadChars}, extra : {r + 1}]
  IN AtLimit(ChunkedWords \div w, ChunkedWords % w)
       \cup {[parts |-> <<"tiny">>, sep |-> "blankLine", copies |-> DirectWords,
               lead |-> 0, extra |-> 0],
              [parts |-> <<"tiny">>, sep |-> "blankLine",
               copies |-> DirectWords - 1, lead |-> 0, extra |-> 0],
              [parts |-> <<"keyed">>, sep |-> "space",
               copies |-> (ChunkedWords + ChunkSize) \div w + 1,
               lead |-> 0, extra |-> 0]}

\* The text of a document, the `text` argument of processDocument.
Documents ==
  [d \in DocIds \cup BoundaryDocIds |->
     CatAll(
       <<Rep(" ", d.lead),
        Join([i \in 1..(Len(d.parts) * d.copies) |->
             PartText(d.parts[((i - 1) % Len(d.parts)) + 1])],
          SepText(d.sep)),
        CatAll([i \in 1..d.extra |-> Cat(LitSpace, PartText("word"))])>>)]

\* What a summarization model's reply holds as summary_text / generated_text
\* (the empty string: the reply holds neither).
SummaryPayloads ==
  { <<>>,
    Rep("s", MinSection - 10),                        \* too short to accept
    Rep("s", MinSection + 10),
    Rep("s", MinSummary + MinSection),
    CatAll([i \in 1..14 |-> Str(<<"a", "b", "c", ".", " ">>)]),   \* fragmented
    CatAll(<<Str(<<"a">>), Rep(" ", MinSection), Str(<<"b">>)>>) }
                                                      \* shrinks when cleaned

\* The elements of the JSON array found in an MCQ model's reply.  A missing
\* field and an empty one are both the empty string (or sequence): the code
\* tells them apart nowhere.
ModelElements ==
  LET a == Str(<<"a">>)
      b == Str(<<"b">>)
      c == Str(<<"c">>)
      d == Str(<<"d">>)
      z == Str(<<"z">>)
      q == Str(<<"q", "?">>)
  IN [question : {q},
      options : {<<>>, <<a, b>>, <<a, b, c, d>>, <<a, a, c, d>>,
                 << <<>>, b, c, d>>},
      answer : {<<>>, a, z}]
     \cup {[question |-> <<>>, options |-> <<>>, answer |-> <<>>]}

\* The JSON arrays: one element of any kind, or up to MaxArrayLen copies of a
\* well-formed element.
ModelArrays ==
  LET good == [question |-> Str(<<"q", "?">>),
               options |-> <<Str(<<"a">>), Str(<<"b">>), Str(<<"c">>),
                             Str(<<"d">>)>>,
               answer |-> Str(<<"b">>)]
  IN {<<e>> : e \in ModelElements}
       \cup {[i \in 1..n |-> good] : n \in 1..MaxArrayLen}

\* The outcomes of one callHuggingFace call: it throws, or returns
\* response.data.  For an MCQ model `array` is the non-empty array that
\* JSON.parse yields from the reply's text, or <<>> when the reply has no
\* text, no [...] in it, or text that does not parse to a non-empty array of
\* objects (lines 462-477, 487).
SummaryReplies ==
  {[failed |-> TRUE, summary |-> <<>>]}
    \cup [failed : {FALSE}, summary : SummaryPayloads]
McqReplies ==
  {[failed |-> TRUE, array |-> <<>>], [failed |-> FALSE, array |-> <<>>]}
    \cup [failed : {FALSE}, array : ModelArrays]

\* chunkText(text, wordsPerChunk), lines 73-86 (the text is not empty here).
\* The for loop of lines 80-83, from index i (counted from 0) on.
RECURSIVE ChunkLoop(_, _, _, _)
ChunkLoop(words, wordsPerChunk, i, chunks) ==
  IF i < Len(words)
  THEN ChunkLoop(words, wordsPerChunk, i + wordsPerChunk,
                 Append(chunks,
                        Join(SubSeq(words, i + 1,
                                    Min(i + wordsPerChunk, Len(words))),
                             LitSpace)))
  ELSE chunks

chunkTextMut(text, wordsPerChunk) ==
  LET Chunks(words) ==
        IF Len(words) <= wordsPerChunk + 1 THEN <<text>>
        ELSE ChunkLoop(words, wordsPerChunk, 0, <<>>)
  IN Chunks(SplitWhitespace(text))
chunkText(text, wordsPerChunk) ==
  LET Chunks(words) ==
        IF Len(words) <= wordsPerChunk THEN <<text>>
        ELSE ChunkLoop(words, wordsPerChunk, 0, <<>>)
  IN Chunks(SplitWhitespace(text))

\* processDocument, lines 612-616: first, middle and last chunk, without the
\* empty strings that filter(Boolean) drops.
PriorityChunksMut(chunks) == chunks
PriorityChunks(chunks) ==
  SelectSeq(<<chunks[1], chunks[(Len(chunks) \div 2) + 1], chunks[Len(chunks)]>>,
            LAMBDA c : c # <<>>)

\* What summarizeText reads off its argument before it calls any model:
\* whether it is blank (line 312), its word count (line 317), and the
\* structured summary extracted from it (lines 321-322, 411-412, 420-421).
Digest(t) ==
  [blank |-> Trim(t) = <<>>,
   words |-> WordCount(t),
   extractive |-> ExtractiveSummary(t)]

\* processDocument, line 602: the document is summarized in stages.
IsVeryLongMut(wordCount) == wordCount >= ChunkedWords
IsVeryLong(wordCount) == wordCount > ChunkedWords

\* The values of the pure functions of the document that processDocument and
\* its callees use: they are computed once, when the request starts, and read
\* where the code calls the functions.  A document of over 3000 words has
\* its priority sections and its head (line 640) digested as well.
Analysis(text) ==
  LET Texts(long) ==
        <<text, IF long THEN Substring0(text, HeadChars) ELSE <<>>>>
          \o (IF long THEN PriorityChunks(chunkText(text, ChunkSize))
              ELSE <<>>)
      Of(digests) ==
        [full |-> digests[1],
         head |-> digests[2],
         sections |-> SubSeq(digests, 3, Len(digests)),
         combined |-> digests[2],
         fallbackMcqs |-> generateIntelligentMCQs(text)]
      All(texts) == Of([k \in 1..Len(texts) |-> Digest(texts[k])] \o <<>>)
  IN All(Texts(Trim(text) # <<>> /\ IsVeryLong(WordCount(text))))

\* Before the request starts nothing has been computed.
NoAnalysis ==
  LET none == [blank |-> TRUE, words |-> 0, extractive |-> <<>>]
  IN [full |-> none, head |-> none, sections |-> <<>>, combined |-> none,
      fallbackMcqs |-> <<>>]

DocIdle ==
  /\ doc = [parts |-> <<>>, sep |-> "space", copies |-> 1, lead |-> 0,
            extra |-> 0]
  /\ dpc = "idle"
  /\ memo = NoAnalysis
  /\ target = [kind |-> "full", pos |-> 0]
  /\ model = 0
  /\ sectionSummaries = <<>>
  /\ result = <<>>
  /\ finalSummary = <<>>
  /\ mcqs = <<>>
  /\ allFailed = TRUE

\* A request arrives with any of the documents.
DocInit ==
  /\ doc \in DocIds
  /\ dpc = "idle"
  /\ memo = NoAnalysis
  /\ target = [kind |-> "full", pos |-> 0]
  /\ model = 0
  /\ sectionSummaries = <<>>
  /\ result = <<>>
  /\ finalSummary = <<>>
  /\ mcqs = <<>>
  /\ allFailed = TRUE

\* A request arrives with a document at the limit of the two paths.
BoundaryInit ==
  /\ doc \in BoundaryDocIds
  /\ dpc = "idle"
  /\ memo = NoAnalysis
  /\ target = [kind |-> "full", pos |-> 0]
  /\ model = 0
  /\ sectionSummaries = <<>>
  /\ result = <<>>
  /\ finalSummary = <<>>
  /\ mcqs = <<>>
  /\ allFailed = TRUE

Text == Documents[doc]

\* The argument of the summarizeText call in progress.
TargetDigest ==
  CASE target.kind = "full" -> memo.full
    [] target.kind = "section" -> memo.sections[target.pos]
    [] target.kind = "head" -> memo.head
    [] target.kind = "combined" -> memo.combined

\* callHuggingFace, lines 122-169, as seen from its caller: the call goes
\* through hfCircuitBreaker.execute, which rejects it while OPEN before
\* nextAttempt, and otherwise runs the post under retryOnCondition and
\* records its outcome with onSuccess or onFailure.
callHuggingFace(failed) ==
  /\ ExecuteRejects(state, now, nextAttempt) => failed
  /\ IF ExecuteRejects(state, now, nextAttempt)
     THEN UNCHANGED <<state, failureCount, nextAttempt, consecFails>>
     ELSE IF failed
     THEN /\ failureCount' = failureCount + 1
          /\ consecFails' = consecFails + 1
          /\ IF OnFailureOpens(failureCount + 1)
             THEN state' = "OPEN" /\ nextAttempt' = now + ResetTimeout
             ELSE /\ state' = IF state = "OPEN" THEN "HALF_OPEN" ELSE state
                  /\ nextAttempt' = nextAttempt
     ELSE /\ failureCount' = 0
          /\ consecFails' = 0
          /\ state' = OnSuccessState(state)
          /\ nextAttempt' = nextAttempt
  /\ allFailed' = (allFailed /\ failed)
  /\ UNCHANGED <<now, call>>

\* processDocument, lines 591-646, up to its first call of summarizeText.
ProcessDocument ==
  /\ dpc = "idle"
  /\ IF Trim(Text) = <<>>
     THEN /\ dpc' = "threw"
          /\ UNCHANGED <<memo, target>>
     ELSE /\ dpc' = "summarize"
          /\ memo' = Analysis(Text)
          /\ target' = IF IsVeryLong(memo'.full.words)
                       THEN [kind |-> "section", pos |-> 1]
                       ELSE [kind |-> "full", pos |-> 0]
  /\ UNCHANGED <<doc, model, sectionSummaries, result, finalSummary, mcqs,
                 allFailed>>
  /\ UNCHANGED <<retryVars, breakerVars, hf, pf>>

\* summarizeText, line 319: the text is summarized by extraction.
IsShortTextMut(wordCount) == wordCount < DirectWords - 1
IsShortText(wordCount) == wordCount < DirectWords

\* summarizeText, lines 311-342, up to its first model call.  A blank
\* argument makes it throw: the section loop catches that (line 625) and goes
\* on with an empty result, any other caller lets it through.
SummarizeText ==
  /\ dpc = "summarize"
  /\ LET t == TargetDigest IN
     IF t.blank
     THEN /\ dpc' = IF target.kind = "section" THEN "summarized" ELSE "threw"
          /\ result' = <<>>
          /\ model' = model
     ELSE IF IsShortText(t.words)
     THEN /\ dpc' = "summarized"
          /\ result' = t.extractive
          /\ model' = model
     ELSE /\ dpc' = "sumCall"
          /\ result' = result
          /\ model' = 1
  /\ UNCHANGED <<doc, memo, target, sectionSummaries, finalSummary, mcqs,
                 allFailed>>
  /\ UNCHANGED <<retryVars, breakerVars, hf, pf>>

\* summarizeText, lines 393-404: what becomes of an accepted model summary.
CleanedSummary(summary, structured) ==
  LET cleanedSummary == CollapseFullStops(CollapseWhitespace(Trim(summary)))
  IN IF TerminatorPieces(cleanedSummary) > FragmentPieces
          /\ StrLen(cleanedSummary) < FragmentChars
     THEN IF StrLen(structured) > StrLen(cleanedSummary)
          THEN structured ELSE cleanedSummary
     ELSE cleanedSummary

\* summarizeText, line 390, and generateMCQs, lines 472-477: the reply of a
\* candidate passes validation.
AcceptsSummaryMut(r) == ~r.failed /\ StrLen(Trim(r.summary)) > MinSummary
AcceptsSummary(r) == ~r.failed /\ StrLen(Trim(r.summary)) > MinSection
AcceptsArray(r) == ~r.failed /\ Len(r.array) > 0

\* summarizeText, lines 369-421: the model's call completes.  A summary
\* longer than 50 characters is cleaned and returned; otherwise the next
\* model is tried, and after the last one the extracted summary is returned.
SummaryReply(r) ==
  /\ dpc = "sumCall"
  /\ callHuggingFace(r.failed)
  /\ IF AcceptsSummary(r)
     THEN /\ dpc' = "summarized"
          /\ result' = CleanedSummary(r.summary, TargetDigest.extractive)
          /\ model' = model
     ELSE IF model < SummaryModels
     THEN /\ dpc' = "sumCall"
          /\ result' = result
          /\ model' = model + 1
     ELSE /\ dpc' = "summarized"
          /\ result' = TargetDigest.extractive
          /\ model' = model
  /\ UNCHANGED <<doc, memo, target, sectionSummaries, finalSummary, mcqs>>
  /\ UNCHANGED <<retryVars, hf, pf>>

\* processDocument, lines 621-646: summarizeText has returned.  A section's
\* summary is kept if longer than 50 characters; after the last section the
\* kept ones are joined and, if over 500 characters, summarized again; with
\* none kept the head of the document is summarized.
UseSummary ==
  /\ dpc = "summarized"
  /\ IF target.kind = "section"
     THEN LET Kept(kept, combined) ==
                /\ sectionSummaries' = kept
                /\ IF target.pos < Len(memo.sections)
                   THEN /\ target' = [kind |-> "section", pos |-> target.pos + 1]
                        /\ dpc' = "summarize"
                        /\ UNCHANGED <<finalSummary, memo>>
                   ELSE IF Len(kept) = 0
                   THEN /\ target' = [kind |-> "head", pos |-> 0]
                        /\ dpc' = "summarize"
                        /\ UNCHANGED <<finalSummary, memo>>
                   ELSE IF StrLen(combined) > MaxCombined
                   THEN /\ target' = [kind |-> "combined", pos |-> 0]
                        /\ dpc' = "summarize"
                        /\ memo' = [memo EXCEPT !.combined = Digest(combined)]
                        /\ finalSummary' = finalSummary
                   ELSE /\ target' = target
                        /\ dpc' = "floor"
                        /\ finalSummary' = combined
                        /\ memo' = memo
              Pushed(kept) == Kept(kept, Join(kept, LitBlankLine))
          IN Pushed(IF StrLen(result) > MinSection
                    THEN Append(sectionSummaries, result)
                    ELSE sectionSummaries)
     ELSE /\ finalSummary' = result
          /\ dpc' = "floor"
          /\ UNCHANGED <<target, sectionSummaries, memo>>
  /\ UNCHANGED <<doc, model, result, mcqs, allFailed>>
  /\ UNCHANGED <<retryVars, breakerVars, hf, pf>>

\* processDocument, lines 648-660, and generateMCQs up to its first model
\* call: a summary under 100 characters gives way to the extracted summary
\* of the document if that one is longer.
EnhancedMut(summary, enhanced) ==
  IF StrLen(Trim(summary)) < MinSection /\ StrLen(enhanced) > StrLen(summary)
  THEN enhanced ELSE summary
Enhanced(summary, enhanced) ==
  IF StrLen(Trim(summary)) < MinSummary /\ StrLen(enhanced) > StrLen(summary)
  THEN enhanced ELSE summary

EnsureQuality ==
  /\ dpc = "floor"
  /\ finalSummary' = Enhanced(finalSummary, memo.full.extractive)
  /\ dpc' = "mcqCall"
  /\ model' = 1
  /\ UNCHANGED <<doc, memo, target, sectionSummaries, result, mcqs, allFailed>>
  /\ UNCHANGED <<retryVars, breakerVars, hf, pf>>

\* generateMCQs, lines 479-485: the MCQ made of one element of the array.
ModelMCQ(mcq) ==
  [question |-> IF mcq.question # <<>> THEN mcq.question
                ELSE LitQuestionNotGenerated,
   options  |-> IF Len(mcq.options) = 4 THEN mcq.options ELSE DefaultOptions,
   answer   |-> IF mcq.answer # <<>> THEN mcq.answer
                ELSE IF Len(mcq.options) > 0 /\ mcq.options[1] # <<>>
                THEN mcq.options[1]
                ELSE DefaultOptions[1]]

\* processDocument returns, lines 662-665: the summary is trimmed, and the
\* locals of the call are gone.
Returns ==
  /\ dpc' = "done"
  /\ finalSummary' = Trim(finalSummary)
  /\ model' = 0
  /\ memo' = NoAnalysis
  /\ target' = [kind |-> "full", pos |-> 0]
  /\ sectionSummaries' = <<>>
  /\ result' = <<>>

\* generateMCQs, lines 445-517, and the return of processDocument, lines
\* 662-665: the model's call completes.  A non-empty array is mapped and
\* returned; otherwise the next model is tried, and after the last one
\* generateIntelligentMCQs(text) is returned.
McqReply(r) ==
  /\ dpc = "mcqCall"
  /\ callHuggingFace(r.failed)
  /\ IF AcceptsArray(r)
     THEN /\ Returns
          /\ mcqs' = Slice0([i \in 1..Len(Slice0(r.array, McqCount)) |->
                               ModelMCQ(r.array[i])], McqCount)
     ELSE IF model < McqModels
     THEN /\ dpc' = "mcqCall"
          /\ model' = model + 1
          /\ UNCHANGED <<mcqs, finalSummary, memo, target, sectionSummaries,
                         result>>
     ELSE /\ Returns
          /\ mcqs' = Slice0(memo.fallbackMcqs, McqCount)
  /\ UNCHANGED doc
  /\ UNCHANGED <<retryVars, hf, pf>>

\* Time passes while a model call is awaited.
Pause ==
  /\ dpc \in {"sumCall", "mcqCall"}
  /\ now < MaxPauses * ResetTimeout
  /\ now' = now + ResetTimeout
  /\ UNCHANGED <<state, failureCount, nextAttempt, call, consecFails>>
  /\ UNCHANGED <<retryVars, docVars, hf, pf>>

DocNext ==
  \/ ProcessDocument
  \/ SummarizeText
  \/ \E r \in SummaryReplies : SummaryReply(r)
  \/ UseSummary
  \/ EnsureQuality
  \/ \E r \in McqReplies : McqReply(r)
  \/ Pause

(***************************************************************************)
(* pdf.service.js: callHuggingFace, request by request                     *)
(*                                                                         *)
(* hfCircuitBreaker.execute wraps retryOnCondition(post, shouldRetry, 3).  *)
(* hfAxios resolves every status below 500 (validateStatus) and rejects    *)
(* the others with an error that carries `response`; a timeout or a        *)
(* network failure rejects with an error that has no `response`.           *)
(***************************************************************************)
HfMaxRetries == 3

\* What the upstream does with one request.
Upstream == {"ok", "dataError", "s404", "s408", "s410", "s429", "s500",
             "s503", "timeout", "network"}

\* The HTTP status of a reply; 0 when no reply arrived.
Status(k) ==
  CASE k \in {"ok", "dataError"} -> 200
    [] k = "s404" -> 404
    [] k = "s408" -> 408
    [] k = "s410" -> 410
    [] k = "s429" -> 429
    [] k = "s500" -> 500
    [] k = "s503" -> 503
    [] OTHER -> 0

\* validateStatus: the post promise resolves for these replies.
Resolves(k) == Status(k) # 0 /\ Status(k) < 500

\* The body of the try block on a resolved response: TRUE when a line of it
\* throws (status 503, 429, 410, >= 400 or data.error).
TryThrows(k) ==
  \/ Status(k) = 503
  \/ Status(k) = 429
  \/ Status(k) = 410
  \/ Status(k) >= 400
  \/ k = "dataError"

\* The error that leaves the function handed to retryOnCondition, as the
\* catch block makes it: an error with `response` is rethrown as it is, any
\* other one (the Errors thrown in the try block included) is replaced by a
\* new Error, which has no `response`.
NoError == [response |-> FALSE, status |-> 0, message |-> "none"]
PostError(k) ==
  IF Resolves(k)
  THEN [response |-> FALSE, status |-> 0, message |-> "Network error"]
  ELSE IF Status(k) # 0
  THEN [response |-> TRUE, status |-> Status(k), message |-> "axios"]
  ELSE IF k = "timeout"
  THEN [response |-> FALSE, status |-> 0, message |-> "Request timeout"]
  ELSE [response |-> FALSE, status |-> 0, message |-> "Network error"]

\* The function handed to retryOnCondition returns (does not throw).
PostReturns(k) == Resolves(k) /\ ~TryThrows(k)

shouldRetry(error) ==
  \/ error.response /\ error.status \in {503, 429, 408}
  \/ ~error.response

HfIdle == [pc |-> "idle", attempt |-> 0, replies |-> <<>>, error |-> NoError]

\* callHuggingFace is called: hfCircuitBreaker.execute runs up to the first
\* request, or rejects without calling the wrapped function.
HfExecute ==
  /\ hf.pc \in {"idle", "returned", "threw"}
  /\ IF ExecuteRejects(state, now, nextAttempt)
     THEN /\ hf' = [pc |-> "threw", attempt |-> 0, replies |-> <<>>,
                    error |-> [response |-> FALSE, status |-> 0,
                               message |-> "Circuit breaker is OPEN"]]
          /\ state' = state
     ELSE /\ hf' = [pc |-> "post", attempt |-> 0, replies |-> <<>>,
                    error |-> NoError]
          /\ state' = IF state = "OPEN" THEN "HALF_OPEN" ELSE state
  /\ UNCHANGED <<failureCount, nextAttempt, now, call, consecFails>>
  /\ UNCHANGED <<retryVars, docVars, pf>>

\* execute's catch clause runs onFailure when the function it awaits, the
\* whole retryOnCondition loop, throws: not when one request of it fails.
OnFailureRunsMut(givesUp) == TRUE
OnFailureRuns(givesUp) == givesUp

\* One request is answered; the rest of the loop body of retryOnCondition
\* runs and, when the helper returns or throws, the breaker's onSuccess or
\* onFailure.
HfPost(k) ==
  /\ hf.pc = "post"
  /\ IF PostReturns(k)
     THEN /\ hf' = [hf EXCEPT !.pc = "returned", !.replies = Append(@, k)]
          /\ failureCount' = 0
          /\ consecFails' = 0
          /\ state' = OnSuccessState(state)
          /\ nextAttempt' = nextAttempt
     ELSE LET Failed(givesUp) ==
                /\ hf' = IF givesUp
                         THEN [hf EXCEPT !.pc = "threw",
                                         !.replies = Append(@, k),
                                         !.error = PostError(k)]
                         ELSE [hf EXCEPT !.attempt = @ + 1,
                                         !.replies = Append(@, k)]
                /\ IF OnFailureRuns(givesUp)
                   THEN /\ failureCount' = failureCount + 1
                        /\ consecFails' = consecFails + 1
                        /\ IF OnFailureOpens(failureCount + 1)
                           THEN /\ state' = "OPEN"
                                /\ nextAttempt' = now + ResetTimeout
                           ELSE UNCHANGED <<state, nextAttempt>>
                   ELSE UNCHANGED <<state, failureCount, nextAttempt,
                                    consecFails>>
          IN Failed(ConditionGivesUp(hf.attempt, HfMaxRetries,
                                     shouldRetry(PostError(k))))
  /\ UNCHANGED <<now, call>>
  /\ UNCHANGED <<retryVars, docVars, pf>>

\* Time passes between two calls or while a request is pending.
HfTick ==
  /\ now < MaxTicks * TickMs
  /\ now' = now + TickMs
  /\ UNCHANGED <<state, failureCount, nextAttempt, call, consecFails>>
  /\ UNCHANGED <<retryVars, docVars, hf, pf>>

CallNext ==
  \/ HfExecute
  \/ \E k \in Upstream : HfPost(k)
  \/ HfTick

(***************************************************************************)
(* pdf.service.js: the pure functions, called on their own                 *)
(***************************************************************************)
MaxTextWords  == 9   \* a text given to chunkText has up to MaxTextWords words
MaxChunkWords == 4   \* wordsPerChunk goes up to MaxChunkWords

PfIdle == [fn |-> "none"]

\* The i-th word of a text: i letters.
NthWord(i) == Rep("a", i)

\* The texts given to chunkText: words 1..n separated by one space
\* ("clean"), the same after a space ("lead") or before one ("trail"), or
\* separated by a space and a newline ("wide").
TextShapes == {"clean", "lead", "trail", "wide"}
ShapedText(t) ==
  LET words == [i \in 1..t.words |-> NthWord(i)]
  IN CASE t.shape = "clean" -> Join(words, LitSpace)
       [] t.shape = "lead"  -> Cat(LitSpace, Join(words, LitSpace))
       [] t.shape = "trail" -> Cat(Join(words, LitSpace), LitSpace)
       [] t.shape = "wide"  -> Join(words, Cat(LitSpace, LitNewline))

\* chunkText is called: on a small text with a small wordsPerChunk, or on a
\* clean text of 4500 or 800 words with 1000 words per chunk.
ChunkTextCalls ==
  [fn : {"chunkText"}, pc : {"called"},
   text : [words : 1..MaxTextWords, shape : TextShapes],
   wordsPerChunk : 1..MaxChunkWords, out : {<<>>}]
  \cup [fn : {"chunkText"}, pc : {"called"},
        text : [words : {4500, 800}, shape : {"clean"}],
        wordsPerChunk : {1000}, out : {<<>>}]

\* chunkText returns.
ChunkTextReturns ==
  /\ pf.fn = "chunkText"
  /\ pf.pc = "called"
  /\ pf' = [pf EXCEPT !.pc = "returned",
                      !.out = chunkText(ShapedText(pf.text), pf.wordsPerChunk)]
  /\ UNCHANGED <<retryVars, breakerVars, docVars, hf>>

ChunkNext == ChunkTextReturns

MinTextLength  == 50   \* MIN_TEXT_LENGTH
MaxInvocations == 3    \* generateIntelligentMCQs is invoked up to 3 times

\* The documents that cleanText can return: one line, single spaces, no
\* space at either end, MIN_TEXT_LENGTH characters or more.
CleanDocIds ==
  {d \in DocIds :
     /\ d.sep = "space" /\ d.copies = 1 /\ Len(d.parts) >= 1
     /\ \A i \in 1..Len(d.parts) : d.parts[i] # "blank"
     /\ StrLen(Documents[d]) >= MinTextLength}

\* The texts generateIntelligentMCQs is invoked on: each single part, and
\* five sentences of 30 characters or more after or before a shorter one.
PartDocIds ==
  {d \in DocIds :
     /\ d.sep = "space" /\ d.copies = 1
     /\ Len(d.parts) = 1 \/ d.parts \in {<<"mid", "essay">>, <<"essay", "mid">>}}

\* A pure function is called: the summary composer on a cleaned text, or
\* generateIntelligentMCQs, which will be invoked several times.
TextCalls ==
  [fn : {"createStructuredSummary"}, pc : {"called"}, text : CleanDocIds,
   intro : {<<>>}, out : {<<>>}]
  \cup {[fn |-> "generateIntelligentMCQs", calls |-> <<>>]}

\* createStructuredSummary(extractKeyInformation(text)) returns; `intro` is
\* the introduction it has put in the summary.
ComposeSummary ==
  /\ pf.fn = "createStructuredSummary"
  /\ pf.pc = "called"
  /\ LET Composed(extracted) ==
           [pf EXCEPT !.pc = "returned",
                      !.intro = IntroductionPart(extracted.introSection),
                      !.out = createStructuredSummary(extracted)]
     IN pf' = Composed(extractKeyInformation(Documents[pf.text]))
  /\ UNCHANGED <<retryVars, breakerVars, docVars, hf>>

\* generateIntelligentMCQs, line 537: `const mcqs = []`, the array of an
\* invocation is a new one, whatever an earlier invocation has left.
NewMcqsMut(left) == left
NewMcqs(left) == <<>>

\* generateIntelligentMCQs is invoked on a text and returns.
InvokeGenerate(d) ==
  /\ pf.fn = "generateIntelligentMCQs"
  /\ Len(pf.calls) < MaxInvocations
  /\ LET Returned(left) ==
           [text |-> d,
            out |-> Slice0(NewMcqs(left) \o generateIntelligentMCQs(Documents[d]),
                           McqCount)]
     IN pf' = [pf EXCEPT !.calls =
                 Append(@, Returned(IF Len(pf.calls) = 0 THEN <<>>
                                    ELSE pf.calls[Len(pf.calls)].out))]
  /\ UNCHANGED <<retryVars, breakerVars, docVars, hf>>

TextNext ==
  \/ ComposeSummary
  \/ \E d \in PartDocIds : InvokeGenerate(d)

(***************************************************************************)
(* Specifications                                                          *)
(***************************************************************************)
\* Each specification starts one subsystem and leaves the others at rest.
InitRetry   == RetryInit /\ BreakerIdle /\ DocIdle /\ hf = HfIdle /\ pf = PfIdle
InitBreaker == BreakerInit /\ RetryIdle /\ DocIdle /\ hf = HfIdle /\ pf = PfIdle
InitDoc     == DocInit /\ BreakerInit /\ RetryIdle /\ hf = HfIdle /\ pf = PfIdle
InitBoundary == BoundaryInit /\ BreakerInit /\ RetryIdle /\ hf = HfIdle /\ pf = PfIdle
\* A request arrives with the empty text, a one-part text or a long one.
InitDocLive ==
  /\ DocInit /\ Len(doc.parts) <= 1 /\ BreakerInit /\ RetryIdle
  /\ hf = HfIdle /\ pf = PfIdle

\* The request is over.
Settled == dpc \in {"done", "threw"}

InitCall    == BreakerInit /\ RetryIdle /\ DocIdle /\ hf = HfIdle /\ pf = PfIdle

SpecRetry   == InitRetry /\ [][RetryNext]_vars
SpecBreaker == InitBreaker /\ [][BreakerNext]_vars
SpecDoc     == InitDoc /\ [][DocNext]_vars
SpecBoundary == InitBoundary /\ [][DocNext]_vars
\* Every awaited promise settles (hfAxios has a timeout, line 117), and a
\* settled promise resumes the function that awaits it: the steps of the
\* request are weakly fair.  They are the steps that leave `now` alone, and
\* one of them is enabled until the request is over, which makes the
\* condition below WF_vars(ProcessDocument \/ ... \/ McqReply).
SpecDocLive ==
  /\ InitDocLive
  /\ [][DocNext]_vars
  /\ ([]<>Settled \/ []<><<now' = now>>_vars)
InitChunk ==
  /\ pf \in ChunkTextCalls
  /\ RetryIdle /\ BreakerIdle /\ DocIdle /\ hf = HfIdle

SpecChunk   == InitChunk /\ [][ChunkNext]_vars

InitText ==
  /\ pf \in TextCalls
  /\ RetryIdle /\ BreakerIdle /\ DocIdle /\ hf = HfIdle

SpecText    == InitText /\ [][TextNext]_vars
SpecCall    == InitCall /\ [][CallNext]_vars

(***************************************************************************)
(* Properties of processDocument (SpecDoc)                                 *)
(***************************************************************************)

\* The answer of an MCQ is one of its own options.
AnswerAmongOptions(m) == \E i \in 1..Len(m.options) : m.options[i] = m.answer

\* C1: for a text that is not blank, when every model call has failed,
\* processDocument returns (it does not throw) exactly 5 MCQs, each with
\* exactly 4 options and an answer equal to one of them.
C1_FallbackMcqs ==
  (dpc \in {"done", "threw"} /\ allFailed /\ Trim(Text) # <<>>) =>
     /\ dpc = "done"
     /\ Len(mcqs) = 5
     /\ \A i \in 1..Len(mcqs) :
          Len(mcqs[i].options) = 4 /\ AnswerAmongOptions(mcqs[i])

\* Every model call failed, the breaker opened on the way, and the result
\* holds an MCQ made of a sentence followed by padding MCQs.
C1_Witness ==
  /\ dpc = "done" /\ allFailed /\ state = "OPEN"
  /\ Len(mcqs) = 5
  /\ mcqs[1].answer # PadOptions[1]
  /\ mcqs[5].answer = PadOptions[1]

\* C2: for a text that is not blank, when every model call has failed, the
\* summary that processDocument returns has at least one character.
C2_SummaryNonEmpty ==
  (dpc = "done" /\ allFailed) => StrLen(finalSummary) >= 1

\* C3: every MCQ that processDocument returns has exactly 4 options, all
\* non-empty and pairwise distinct, and an answer equal to one of them.
C3_WellFormedMcqs ==
  dpc = "done" =>
    \A i \in 1..Len(mcqs) :
      /\ Len(mcqs[i].options) = 4
      /\ \A j \in 1..Len(mcqs[i].options) : mcqs[i].options[j] # <<>>
      /\ \A j, k \in 1..Len(mcqs[i].options) :
           j # k => mcqs[i].options[j] # mcqs[i].options[k]
      /\ AnswerAmongOptions(mcqs[i])

\* C4: processDocument returns exactly 5 MCQs, whatever the length of the
\* array a model has returned.
C4_ExactlyFive == dpc = "done" => Len(mcqs) = 5

(***************************************************************************)
(* Properties of the circuit breaker (SpecBreaker)                         *)
(***************************************************************************)

C6_SingleProbe ==
  \A p \in Callers : call[p].pc = "inFn" => ~call[p].duringProbe

\* C7: when the HALF_OPEN probe completes, its outcome fixes the state:
\* success gives CLOSED with failureCount 0, failure gives OPEN with
\* nextAttempt = now + resetTimeout.
C7_ProbeDecides ==
  [][\A p \in Callers :
       (call[p].pc = "inFn" /\ call[p].probe /\ call'[p].pc = "idle") =>
         IF call'[p].result = "ok"
         THEN state' = "CLOSED" /\ failureCount' = 0
         ELSE state' = "OPEN" /\ nextAttempt' = now + ResetTimeout]_vars

\* C8: the state changes only along CLOSED->OPEN (failureCount reaches the
\* threshold), OPEN->HALF_OPEN (at or after nextAttempt), HALF_OPEN->CLOSED
\* and HALF_OPEN->OPEN; in particular never OPEN->CLOSED.
C8_OnlyAllowedEdges ==
  [][\/ state' = state
     \/ state = "CLOSED" /\ state' = "OPEN"
          /\ failureCount' >= FailureThreshold
     \/ state = "OPEN" /\ state' = "HALF_OPEN" /\ now >= nextAttempt
     \/ state = "HALF_OPEN" /\ state' \in {"CLOSED", "OPEN"}]_vars

(***************************************************************************)
(* Properties of the retry helpers (SpecRetry)                             *)
(***************************************************************************)

\* C9: retryOnCondition whose operation fails every time and whose predicate
\* answers true to its first rK calls calls the operation exactly
\* min(rK, maxRetries) + 1 times and then throws the last error caught.
C9_ConditionalInvocations ==
  (rFn = "retryOnCondition" /\ rpc = "thrown") =>
     /\ invocations = Min(rK, rMax) + 1
     /\ thrownErr = invocations

C9_Witness ==
  /\ rFn = "retryOnCondition" /\ rpc = "thrown"
  /\ rK = 1 /\ rMax = DefaultMaxRetries
  /\ invocations = 2 /\ thrownErr = 2

\* C10 as claimed: retryWithBackoff whose operation fails every time calls it
\* maxRetries times in total and throws the last error.
C10_AsClaimed ==
  (rFn = "retryWithBackoff" /\ rpc = "thrown") =>
     /\ invocations = rMax
     /\ thrownErr = invocations

\* C10 amended: retryWithBackoff whose operation fails every time calls it
\* maxRetries + 1 times (the first call and maxRetries retries), waits
\* baseDelay * 2^attempt before each retry, and throws the last error.
C10_BackoffInvocations ==
  (rFn = "retryWithBackoff" /\ rpc = "thrown") =>
     /\ invocations = rMax + 1
     /\ thrownErr = invocations
     /\ delays = [i \in 1..rMax |-> rBase * Pow2(i - 1)]

C10_Witness ==
  /\ rFn = "retryWithBackoff" /\ rpc = "thrown"
  /\ rMax = DefaultMaxRetries
  /\ invocations = 4 /\ thrownErr = 4

(***************************************************************************)
(* Properties of callHuggingFace (SpecCall)                                *)
(***************************************************************************)

\* A reply that reports a permanent error: 410, or a 4xx other than 408
\* and 429.
Permanent(k) == Status(k) >= 400 /\ Status(k) < 500 /\ Status(k) \notin {408, 429}

\* C11: when the upstream answers a request with a permanent error (410 or
\* another 4xx except 408 and 429), callHuggingFace sends no further request:
\* the call ends having issued exactly that one request.
C11_PermanentNotRetried ==
  \A i \in 1..Len(hf.replies) :
     Permanent(hf.replies[i]) => hf.pc = "threw" /\ Len(hf.replies) = i

(***************************************************************************)
(* Properties of processDocument on any upstream behaviour                 *)
(***************************************************************************)

Calling(pc) == pc \in {"sumCall", "mcqCall"}

\* C13: the candidates of a cascade are tried in list order, one at a time:
\* a cascade starts with the first candidate, after a candidate only the next
\* one is called, and a reply that passes validation (a summary of more than
\* 50 characters once trimmed, a non-empty array of MCQs) ends the cascade
\* without any later candidate being called: no step that goes on with the
\* cascade is the step of such a reply.
C13_CascadeInOrder ==
  [][ /\ (Calling(dpc') /\ dpc' # dpc) => model' = 1
      /\ (Calling(dpc') /\ dpc' = dpc) =>
            \/ model' = model + 1
            \/ model' = model /\ now' # now
      /\ (dpc = "sumCall" /\ ~(dpc' = "summarized" /\ model' = model)) =>
            \A r \in SummaryReplies :
               (~r.failed /\ StrLen(Trim(r.summary)) > 50) => ~SummaryReply(r)
      /\ (dpc = "mcqCall" /\ dpc' # "done") =>
            \A r \in McqReplies :
               (~r.failed /\ Len(r.array) > 0) => ~McqReply(r)
    ]_vars

\* A cascade was ended by its second candidate.
C13_Witness ==
  /\ dpc = "summarized"
  /\ model = 2
  /\ result = Rep("s", MinSection + 10)

(***************************************************************************)
(* Termination of processDocument                                          *)
(***************************************************************************)
PrioritySections == 3

\* An upper limit of the callHuggingFace calls the request can still make:
\* the candidates left in the cascade in progress, a full cascade for every
\* summarizeText pass that can follow (the sections left, then one pass on
\* the joined summaries or on the head), and the MCQ cascade.
CallsLeft ==
  LET passesAfter == IF target.kind = "section"
                     THEN PrioritySections - target.pos + 1 ELSE 0
      later == passesAfter * SummaryModels + McqModels
  IN CASE dpc = "idle" -> (PrioritySections + 1) * SummaryModels + McqModels
       [] dpc = "summarize" -> SummaryModels + later
       [] dpc = "sumCall" -> SummaryModels - model + 1 + later
       [] dpc = "summarized" -> later
       [] dpc = "floor" -> McqModels
       [] dpc = "mcqCall" -> McqModels - model + 1
       [] OTHER -> 0

\* One callHuggingFace call sends at most HfMaxRetries + 1 requests.
RequestsLeft == CallsLeft * (HfMaxRetries + 1)

\* C14: every processDocument call terminates, and the external requests it
\* makes are bounded by a constant of the candidate lists (6 and 5), the
\* retry bound (3 retries) and the summarization passes (3 sections and one
\* more): at most (4 * 6 + 5) * 4 = 116 requests can still be made when the
\* call starts, and each model call that settles takes the 4 requests it
\* may have sent off that number, which never goes below 0.
C14_TerminatesBounded ==
  /\ <>Settled
  /\ [](RequestsLeft >= 0 /\ RequestsLeft <= (4 * 6 + 5) * 4)
  /\ [][ /\ RequestsLeft' <= RequestsLeft
         /\ (Calling(dpc) /\ (dpc' # dpc \/ model' # model)) =>
               RequestsLeft' + (HfMaxRetries + 1) <= RequestsLeft ]_vars

\* A call on a document of over 3000 words has returned with every model
\* call failed: all passes and cascades ran to their end.
C14_Witness ==
  /\ dpc = "done"
  /\ allFailed
  /\ doc.copies * WordCount(PartText("keyed")) > ChunkedWords

(***************************************************************************)
(* Routing of long documents (SpecBoundary)                                *)
(***************************************************************************)

\* The number of words of a document made of 19-word sentences and single
\* words.
WordsWritten ==
  (IF doc.parts = <<"keyed">> THEN 19 ELSE 1) * doc.copies + doc.extra

\* C15: a document of at most 3000 words takes the short path: the full text
\* is the argument of the one summarizeText call and nothing is chunked; a
\* document of more than 3000 words takes the chunked path: its sections are
\* summarized, then their joined summaries or the head of the text.  3000
\* words go the short way and 3001 words the chunked way.
C15_Routing ==
  dpc \in {"summarize", "sumCall", "summarized", "floor", "mcqCall"} =>
    IF WordsWritten <= 3000
    THEN target.kind = "full" /\ memo.sections = <<>>
    ELSE target.kind \in {"section", "combined", "head"}
           /\ Len(memo.sections) > 0

\* The full text of a document of exactly 3000 words has been summarized
\* directly.
C15_Witness ==
  /\ WordsWritten = 3000
  /\ dpc = "floor"
  /\ target.kind = "full"

\* C17: once a summary has been produced, by either path, the summary that
\* processDocument returns is the output of createStructuredSummary on the
\* text if the produced summary is under 100 characters when trimmed and
\* that output is longer than it, and the produced summary unchanged in any
\* other case, so always when it has 100 characters or more.
C17_SummaryFloor ==
  [][ /\ dpc = "floor" =>
           finalSummary' =
             IF StrLen(Trim(finalSummary)) < 100
                  /\ StrLen(memo.full.extractive) > StrLen(finalSummary)
             THEN memo.full.extractive
             ELSE finalSummary
      /\ dpc = "mcqCall" => finalSummary' = finalSummary ]_vars

\* The first model's summary of the full text, under 100 characters, has
\* given way to the longer structured summary.
C17_Witness ==
  /\ dpc = "mcqCall"
  /\ target.kind = "full"
  /\ StrLen(result) > MinSection
  /\ StrLen(result) < MinSummary
  /\ finalSummary # result
  /\ finalSummary = memo.full.extractive

\* A summary under 100 characters has been kept, the structured summary
\* being shorter.
C17_Kept ==
  /\ dpc = "mcqCall"
  /\ target.kind = "full"
  /\ StrLen(result) > MinSection
  /\ StrLen(result) < MinSummary
  /\ finalSummary = result
  /\ StrLen(memo.full.extractive) < StrLen(result)

\* C20: while the breaker is OPEN and nextAttempt is not reached, a cascade
\* takes the rejection of a call like the failure of the candidate: the call
\* makes no request (the breaker records no outcome), the cascade goes on
\* with the next candidate, and after the last one the deterministic
\* fallback is returned: the structured summary of the text given to
\* summarizeText, the MCQs of generateIntelligentMCQs.
C20_OpenCascadeFallsBack ==
  [][ (/\ Calling(dpc)
       /\ state = "OPEN" /\ now < nextAttempt
       /\ (dpc' # dpc \/ model' # model)) =>
        /\ state' = state /\ failureCount' = failureCount
        /\ nextAttempt' = nextAttempt /\ consecFails' = consecFails
        /\ IF dpc = "sumCall"
           THEN IF model < 6
                THEN dpc' = "sumCall" /\ model' = model + 1
                ELSE dpc' = "summarized" /\ result' = TargetDigest.extractive
           ELSE IF model < 5
                THEN dpc' = "mcqCall" /\ model' = model + 1
                ELSE dpc' = "done" /\ mcqs' = memo.fallbackMcqs
    ]_vars

\* A request on a long document has returned with the breaker open since the
\* fifth candidate of its first cascade: every later cascade, the one of
\* generateMCQs included, ran while it was open.
C20_Witness ==
  /\ dpc = "done"
  /\ allFailed
  /\ state = "OPEN"
  /\ now < nextAttempt
  /\ failureCount = FailureThreshold
  /\ doc.copies * WordCount(PartText("keyed")) > ChunkedWords

(***************************************************************************)
(* Properties of the pure functions                                        *)
(***************************************************************************)

\* C16: chunkText(text, wordsPerChunk) returns ceil(wordCount /
\* wordsPerChunk) chunks that hold the words of the text in their order;
\* every chunk has at most wordsPerChunk words and every chunk but the last
\* exactly that many; a text of at most wordsPerChunk words comes back as
\* one chunk equal to the text.  wordCount is the length of
\* text.split(/\s+/), which for a clean text is the number of its words.
C16_Chunks ==
  (pf.fn = "chunkText" /\ pf.pc = "returned") =>
    LET text == ShapedText(pf.text)
        n == WordCount(text)
        w == pf.wordsPerChunk
        out == pf.out
    IN /\ pf.text.shape = "clean" => n = pf.text.words
       /\ Len(out) = (n + w - 1) \div w
       /\ \A k \in 1..Len(out) : WordCount(out[k]) <= w
       /\ \A k \in 1..(Len(out) - 1) : WordCount(out[k]) = w
       /\ n <= w => out = <<text>>
       /\ SplitWhitespace(text) =
            SplitWhitespace(IF n <= w THEN out[1] ELSE Join(out, LitSpace))
       /\ (n = 4500 /\ w = 1000) => Len(out) = 5
       /\ (n = 800 /\ w = 1000) => Len(out) = 1

\* A text of more words than wordsPerChunk, not a multiple of it, has been
\* chunked.
C16_Witness ==
  /\ pf.fn = "chunkText"
  /\ pf.pc = "returned"
  /\ Len(pf.out) > 2
  /\ pf.text.words % pf.wordsPerChunk # 0

\* C18: on a cleaned text that is not empty, extractKeyInformation followed
\* by createStructuredSummary returns a string that is not empty and has the
\* introduction in it, also when the text has fewer than 5 sentences.
C18_ComposerHasIntroduction ==
  (pf.fn = "createStructuredSummary" /\ pf.pc = "returned") =>
     pf.out # <<>> /\ pf.intro # <<>>

ChunksAtPriorityIndices ==
  LET At(chunks) ==
        <<Digest(chunks[1]), Digest(chunks[(Len(chunks) \div 2) + 1]),
          Digest(chunks[Len(chunks)])>>
  IN At(chunkText(Text, ChunkSize))

\* C21: on the chunked path summarizeText is called on the chunks at indices
\* 0, floor(chunkCount / 2) and chunkCount - 1, in that order and once each:
\* a call on a section is the first one, on the first of exactly those three
\* chunks, or follows the return of the call on the section before it, and
\* the sections stay what they are while they are summarized.
C21_PrioritySections ==
  [][ (dpc' = "summarize" /\ target'.kind = "section") =>
        IF dpc = "idle"
        THEN /\ target'.pos = 1
             /\ memo'.sections = ChunksAtPriorityIndices
        ELSE /\ dpc = "summarized"
             /\ target.kind = "section"
             /\ target'.pos = target.pos + 1
             /\ target'.pos <= PrioritySections
             /\ memo'.sections = memo.sections
    ]_vars

\* The last of the three sections of a document of five chunks has been
\* summarized, after a model has summarized the two before it.
C21_Witness ==
  /\ doc.copies = (ChunkedWords + ChunkSize) \div WordCount(PartText("keyed")) + 1
  /\ dpc = "summarized"
  /\ target = [kind |-> "section", pos |-> PrioritySections]
  /\ Len(sectionSummaries) = PrioritySections - 1

(***************************************************************************)
(* Validation of a candidate's MCQs (SpecDoc)                              *)
(***************************************************************************)

\* An element of a model's array that has a question and 4 options.
WellFormedElement(e) == e.question # <<>> /\ Len(e.options) = 4

\* C22: a reply whose array holds no well-formed element is rejected: its
\* step goes on to the next candidate or, after the last one, returns the
\* MCQs of the fallback generator.
C22_RejectsMalformed ==
  [][ dpc = "mcqCall" =>
        \A r \in McqReplies :
          (/\ ~r.failed
           /\ \A i \in 1..Len(r.array) : ~WellFormedElement(r.array[i])
           /\ McqReply(r))
          => IF model < McqModels
             THEN dpc' = "mcqCall" /\ model' = model + 1
             ELSE dpc' = "done" /\ mcqs' = Slice0(memo.fallbackMcqs, McqCount)
    ]_vars

(***************************************************************************)
(* The sentences the fallback generator uses (SpecText)                    *)
(***************************************************************************)

\* The sentences of the whole text that qualify for a question: the pieces
\* between terminators of 30 characters or more once trimmed.
QualifyingSentences(text) ==
  LET Trimmed(pieces) == [k \in 1..Len(pieces) |-> Trim(pieces[k])]
  IN SelectSeq(Trimmed(SplitTerminators(text)),
               LAMBDA s : StrLen(s) >= MinQuestionSentence)

\* C23: every invocation of the fallback generator returns, for each of the
\* first five qualifying sentences of its text, an MCQ whose correct option
\* is that sentence (cut to 80 characters), and returns the padding MCQ only
\* when fewer than five sentences of the text qualify.
C23_FirstFiveQualifying ==
  pf.fn = "generateIntelligentMCQs" =>
    \A c \in 1..Len(pf.calls) :
      LET Holds(q, out) ==
            /\ \A k \in 1..Min(McqCount, Len(q)) :
                  out[k].answer = Shorten(q[k], 80)
            /\ (\E k \in 1..Len(out) : out[k].options = PadOptions)
                  => Len(q) < McqCount
      IN Holds(QualifyingSentences(Documents[pf.calls[c].text]),
               pf.calls[c].out)

(***************************************************************************)
(* The breaker's counter and state (SpecBreaker)                           *)
(***************************************************************************)

\* C24: whatever the interleaving of the execute calls, a CLOSED breaker has
\* counted fewer failures than the threshold, and an OPEN or HALF_OPEN one
\* has counted the threshold or more.
C24_CountMatchesState ==
  /\ state = "CLOSED" => failureCount < FailureThreshold
  /\ state \in {"OPEN", "HALF_OPEN"} => failureCount >= FailureThreshold

\* Two calls that were in flight together have both failed: the count has
\* passed the threshold, and a later call has found the breaker OPEN after
\* nextAttempt.
C24_Witness ==
  /\ state = "HALF_OPEN"
  /\ failureCount > FailureThreshold

\* C25: an execute call made while the breaker is OPEN and nextAttempt is
\* not reached is rejected and leaves state, failureCount and nextAttempt
\* as they are.
C25_RejectionChangesNothing ==
  [][ \A p \in Callers :
        (state = "OPEN" /\ now < nextAttempt /\ Execute(p)) =>
          /\ call'[p].pc = "idle" /\ call'[p].result = "rejected"
          /\ state' = state
          /\ failureCount' = failureCount
          /\ nextAttempt' = nextAttempt
    ]_vars

\* Both callers have been rejected by a breaker that two concurrent failures
\* had opened: it is still OPEN, with the count and the time of that moment.
C25_Witness ==
  /\ state = "OPEN"
  /\ now < nextAttempt
  /\ failureCount = FailureThreshold + 1
  /\ \A p \in Callers : call[p].pc = "idle" /\ call[p].result = "rejected"

(***************************************************************************)
(* The breaker across the retries of one call (SpecCall)                   *)
(***************************************************************************)

\* C26: one callHuggingFace call changes failureCount once at most, when it
\* ends: no step that leaves the call in progress changes the count; the
\* call throws after requests that have all failed, with the count raised by
\* exactly 1; it returns after a request that succeeded, the first one or a
\* retry, with the count at 0.
C26_OneCountPerCall ==
  [][ /\ (hf.pc # "post" \/ hf'.pc = "post") => failureCount' = failureCount
      /\ (hf.pc = "post" /\ hf'.pc = "threw") =>
            /\ failureCount' = failureCount + 1
            /\ \A i \in 1..Len(hf'.replies) : hf'.replies[i] # "ok"
      /\ (hf.pc = "post" /\ hf'.pc = "returned") =>
            /\ failureCount' = 0
            /\ Last(hf'.replies) = "ok"
    ]_vars

\* The first call has thrown after its four requests failed: one failure is
\* counted.
C26_Witness ==
  /\ hf.pc = "threw"
  /\ Len(hf.replies) = HfMaxRetries + 1
  /\ failureCount = 1

\* A call has returned on its last retry, after an earlier call had failed.
C26_Recovered ==
  /\ hf.pc = "returned"
  /\ Len(hf.replies) = HfMaxRetries + 1
  /\ failureCount = 0
  /\ now > 0

(***************************************************************************)
(* The requests of one processDocument call on a dead upstream (SpecDoc)   *)
(***************************************************************************)

\* C27: the breaker starts CLOSED with failureCount 0; as long as every
\* model call of the request has failed and no time has passed (nextAttempt
\* is not reached), failureCount is the number of calls the breaker has let
\* through, each of at most HfMaxRetries + 1 requests: it never exceeds
\* FailureThreshold, which makes 5 * 4 = 20 requests at most, and once it is
\* there the breaker is OPEN before nextAttempt, where it rejects every call.
C27_AtMostTwentyRequests ==
  (allFailed /\ now = 0) =>
    /\ failureCount * (HfMaxRetries + 1) <= 20
    /\ FailureThreshold * (HfMaxRetries + 1) = 20
    /\ failureCount = FailureThreshold => state = "OPEN" /\ now < nextAttempt
    /\ failureCount < FailureThreshold => state = "CLOSED"

\* A request on a document of over 500 words has returned with every call
\* failed: five calls reached the upstream, the sixth summarization
\* candidate and the five MCQ candidates were rejected.
C27_Witness ==
  /\ dpc = "done"
  /\ allFailed
  /\ now = 0
  /\ failureCount = FailureThreshold
  /\ doc.copies = DirectWords \div WordCount(PartText("keyed")) + 1

(***************************************************************************)
(* summarizeText on a short text (SpecBoundary)                            *)
(***************************************************************************)

\* C28: summarizeText called on a text of fewer than 500 words calls no
\* model: the breaker's state, failureCount and nextAttempt keep their
\* values, and for a text that is not blank the call returns the structured
\* summary extracted from the text.
C28_ShortTextStaysLocal ==
  [][ (dpc = "summarize" /\ dpc' # dpc /\ TargetDigest.words < DirectWords) =>
        /\ dpc' # "sumCall"
        /\ state' = state
        /\ failureCount' = failureCount
        /\ nextAttempt' = nextAttempt
        /\ ~TargetDigest.blank =>
              dpc' = "summarized" /\ result' = TargetDigest.extractive
    ]_vars

\* summarizeText has returned on a document of 499 words without any model
\* being called.
C28_Witness ==
  /\ doc.copies = DirectWords - 1
  /\ dpc = "summarized"
  /\ target.kind = "full"
  /\ model = 0
  /\ state = "CLOSED" /\ failureCount = 0

(***************************************************************************)
(* Replies that arrive but are of no use (SpecDoc)                         *)
(***************************************************************************)

\* C29: a call that the upstream answers is a success for the breaker even
\* when the cascade rejects what it returned (a summary of 50 characters or
\* fewer, no array of MCQs): the step of such a reply leaves failureCount at
\* 0 and the state CLOSED.  So the breaker is CLOSED with count 0 whenever
\* no call has failed since the last answered one: answers alone never
\* open it.
C29_UnusableReplyIsSuccess ==
  /\ [](consecFails = 0 => state = "CLOSED" /\ failureCount = 0)
  /\ [][ /\ dpc = "sumCall" =>
              \A r \in SummaryReplies :
                (/\ ~r.failed /\ StrLen(Trim(r.summary)) <= 50
                 /\ SummaryReply(r))
                => failureCount' = 0 /\ state' = "CLOSED"
         /\ dpc = "mcqCall" =>
              \A r \in McqReplies :
                (~r.failed /\ r.array = <<>> /\ McqReply(r))
                => failureCount' = 0 /\ state' = "CLOSED"
       ]_vars

\* The last summarization candidate is called, and the call before it was
\* answered with a summary that the cascade rejected.
C29_Witness ==
  /\ dpc = "sumCall"
  /\ model = SummaryModels
  /\ ~allFailed
  /\ consecFails = 0
  /\ failureCount = 0
  /\ state = "CLOSED"

(***************************************************************************)
(* The position of the correct option (SpecText)                           *)
(***************************************************************************)

\* C30: in every MCQ that the fallback generator returns the answer is the
\* first of the options, and none of the three other options is the answer.
C30_AnswerIsFirstOnly ==
  pf.fn = "generateIntelligentMCQs" =>
    \A c \in 1..Len(pf.calls) :
      \A k \in 1..Len(pf.calls[c].out) :
        LET mcq == pf.calls[c].out[k]
        IN /\ mcq.answer = mcq.options[1]
           /\ \A i \in 2..Len(mcq.options) : mcq.options[i] # mcq.answer

\* The first half of C30 alone: the answer is the first of the options.
C30_AnswerIsFirst ==
  pf.fn = "generateIntelligentMCQs" =>
    \A c \in 1..Len(pf.calls) :
      \A k \in 1..Len(pf.calls[c].out) :
        pf.calls[c].out[k].answer = pf.calls[c].out[k].options[1]

====
